---- MODULE Spec2Model ----
(***************************************************************************)
(* QuickBars for Home Assistant: the correlation bridge over the event bus *)
(* (custom_components/quickbars/client.py) and the entry lifecycle with   *)
(* its presence tracker (custom_components/quickbars/__init__.py).         *)
(***************************************************************************)
EXTENDS Integers, FiniteSets, Sequences, Bags, TLC

\* ------------------------------------------------------------- bounds
MaxCalls == 2
MaxSetups == 2
MaxNotifs == 2
MaxSvcs == 1
MaxCycles == 2
MaxFlows == 2
MaxSubmits == 4

\* ------------------------------------------------------------- values
Entries == {"e1", "e2"}
\* Identities are strings, kept as sequences of characters so that strip()
\* and lower() are computed.
NoId == <<>>
IdA == <<"a">>
IdB == <<"b">>
Ids == {IdA, IdB}
\* Frames of the bridge coroutines: those of free callers, and one per entry
\* for the ping of its connectivity coordinator.
Calls == 1..MaxCalls
CoordCall(e) == IF e = "e1" THEN MaxCalls + 1 ELSE MaxCalls + 2
Frames == Calls \cup {CoordCall(e) : e \in Entries}
NoCid == 0
CIDs == 1..(MaxCalls + 1)
OkVals == {"true", "false", "absent"}
PayloadVals == {"absent", "p1"}

EVENT_REQ == "quickbars_config_request"
EVENT_RES == "quickbars_config_response"

Ops == {"ping", "get_snapshot", "put_snapshot", "entities_replace",
        "entities_update", "notify"}

\* The data of a response event on EVENT_RES, as any publisher may fire it.
ResData == [id : Ids, cid : CIDs, ok : OkVals, payload : PayloadVals]
NoData == [id |-> NoId, cid |-> NoCid, ok |-> "absent", payload |-> "absent"]

\* A future: pending, or done (val for the boolean operations, data for the
\* others).
PendingFut == [state |-> "pending", val |-> "none", data |-> NoData]
DoneFut(val, data) == [state |-> "done", val |-> val, data |-> data]
\* The future of a coroutine that has returned: nothing refers to it.
NoFut == [state |-> "released", val |-> "none", data |-> NoData]

\* What a call's awaiting caller observes: a returned value (ret; cid for the
\* correlation id ws_notify_fire returns) or a raised error (res: the response
\* a RuntimeError carries).
NoOut == [kind |-> "none", ret |-> "none", res |-> NoData, cid |-> NoCid]
Returned(ret) == [kind |-> "result", ret |-> ret, res |-> NoData, cid |-> NoCid]
ReturnedCid(cid) == [kind |-> "result", ret |-> "cid", res |-> NoData, cid |-> cid]
Raised(kind, res) == [kind |-> kind, ret |-> "none", res |-> res, cid |-> NoCid]

\* The response the remote fired while the request was being published
\* (NoData: none, or dispatched since), whether the call's listener was
\* registered by then, and whether that response set the call's future.
NoSync == [data |-> NoData, heard |-> FALSE, resolved |-> FALSE]

IdleCall == [pc |-> "idle", op |-> "none", entry |-> "none", cid |-> NoCid,
             exp_id |-> NoId, fut |-> PendingFut, out |-> NoOut,
             sync |-> NoSync]

VARIABLES
    configured, \* the config entries of the domain
    entries,    \* entry -> entry.data: [id, host, port]
    calls,      \* frame -> the locals of one bridge coroutine
    listeners,  \* the frames whose _cb is registered on EVENT_RES
    bus,        \* bag of the events fired on the bus
    recv,       \* frame -> data of the response that set its future (log "recv")
    setup,      \* entry -> where async_setup_entry / async_unload_entry stands
    hass_data,  \* entry -> hass.data[DOMAIN][entry_id], or NoRecord
    devices,    \* the device registry
    presence,   \* entry -> _browser of the entry's current _Presence
    browsers,   \* entry -> number of AsyncServiceBrowsers not cancelled
    hc,         \* the _handle_change task of the last discovery notification
    lookups,    \* number of async_get_service_info lookups started
    rechecks,   \* entry -> number of async_request_refresh tasks created
    raised,     \* the errors raised out of tasks and service handlers
    notify_svc, \* the entry whose closure is registered as service "notify"
    action_listeners, \* entries whose _on_action listens on quickbars.action
    svc,        \* the last _svc_notify call: its device_id and color, and
                \* its locals entry2, cid, color_hex
    budget,     \* [setups, notifs, svcs, cycles, actions]: operations so far
    cycle,      \* entry -> how its last _async_update_data ended
    flow,       \* the QuickBarsConfigFlow in progress, and its last step
    opt,        \* the QuickBarsOptionsFlow in progress, and its last step
    cam         \* the last call of the service camera_toggle

bridgeVars == <<calls, listeners, bus, recv>>
lifeVars == <<setup, hass_data, devices, presence, browsers, hc, lookups,
              rechecks, raised, notify_svc, action_listeners, svc, budget,
              cycle, flow, opt, cam>>
vars == <<configured, entries, calls, listeners, bus, recv, setup, hass_data,
          devices, presence, browsers, hc, lookups, rechecks, raised,
          notify_svc, action_listeners, svc, budget, cycle, flow, opt, cam>>

\* ------------------------------------------------------------- client.py
\* An event on the bus. Fields an event type does not carry hold NoId, "none",
\* NoCid or "absent".
Event(type, id, action, cid, payload, device_id, entry_id) ==
    [type |-> type, id |-> id, action |-> action, cid |-> cid,
     payload |-> payload, device_id |-> device_id, entry_id |-> entry_id]

ReqEvent(action, exp_id, cid, payload) ==
    Event(EVENT_REQ, exp_id, action, cid, payload, "none", "none")

\* _entry_id: entry.data.get("id"), or ValueError when missing or empty.
entry_id_never_raises(e) == FALSE
entry_id_raises(e) == entries[e].id = NoId
_entry_id(e) == entries[e].id

\* secrets.token_urlsafe(8): a token no request or call has used so far (the
\* tokens are interchangeable, so the least unused one stands for any).
UsedCids ==
    {ev.cid : ev \in BagToSet(bus)} \cup {calls[c].cid : c \in Frames}
token_urlsafe ==
    CHOOSE t \in CIDs \ UsedCids : \A u \in CIDs \ UsedCids : t <= u

\* The six _cb closures: the future of call c after its listener saw `data`.
ws_get_snapshot_cb_id_only(c, data) ==
    IF data.id # calls[c].exp_id THEN calls[c].fut
    ELSE IF calls[c].fut.state = "pending" THEN DoneFut("none", data)
    ELSE calls[c].fut

ws_get_snapshot_cb(c, data) ==
    IF data.cid # calls[c].cid \/ data.id # calls[c].exp_id THEN calls[c].fut
    ELSE IF calls[c].fut.state = "pending" THEN DoneFut("none", data)
    ELSE calls[c].fut

ws_entities_replace_cb(c, data) ==
    IF data.cid # calls[c].cid \/ data.id # calls[c].exp_id THEN calls[c].fut
    ELSE IF calls[c].fut.state = "pending" THEN DoneFut("none", data)
    ELSE calls[c].fut

ws_entities_update_cb_id_only(c, data) ==
    IF data.id # calls[c].exp_id THEN calls[c].fut
    ELSE IF calls[c].fut.state = "pending" THEN DoneFut("none", data)
    ELSE calls[c].fut

ws_entities_update_cb(c, data) ==
    IF data.cid # calls[c].cid \/ data.id # calls[c].exp_id THEN calls[c].fut
    ELSE IF calls[c].fut.state = "pending" THEN DoneFut("none", data)
    ELSE calls[c].fut

ws_put_snapshot_cb_unguarded(c, data) ==
    IF data.cid # calls[c].cid \/ data.id # calls[c].exp_id THEN calls[c].fut
    ELSE DoneFut("none", data)

ws_put_snapshot_cb(c, data) ==
    IF data.cid # calls[c].cid \/ data.id # calls[c].exp_id THEN calls[c].fut
    ELSE IF calls[c].fut.state = "pending" THEN DoneFut("none", data)
    ELSE calls[c].fut

\* bool(data.get("ok", False))
ok_bool(data) == IF data.ok = "true" THEN "True" ELSE "False"

ws_ping_cb(c, data) ==
    IF data.cid # calls[c].cid \/ data.id # calls[c].exp_id THEN calls[c].fut
    ELSE IF calls[c].fut.state = "pending" THEN DoneFut(ok_bool(data), NoData)
    ELSE calls[c].fut

ws_notify_cb_cid_only(c, data) ==
    IF data.cid # calls[c].cid THEN calls[c].fut
    ELSE IF calls[c].fut.state = "pending" THEN DoneFut(ok_bool(data), NoData)
    ELSE calls[c].fut

ws_notify_cb(c, data) ==
    IF data.cid # calls[c].cid \/ data.id # calls[c].exp_id THEN calls[c].fut
    ELSE IF calls[c].fut.state = "pending" THEN DoneFut(ok_bool(data), NoData)
    ELSE calls[c].fut

_cb(c, data) ==
    CASE calls[c].op = "get_snapshot" -> ws_get_snapshot_cb(c, data)
      [] calls[c].op = "entities_replace" -> ws_entities_replace_cb(c, data)
      [] calls[c].op = "entities_update" -> ws_entities_update_cb(c, data)
      [] calls[c].op = "put_snapshot" -> ws_put_snapshot_cb(c, data)
      [] calls[c].op = "ping" -> ws_ping_cb(c, data)
      [] calls[c].op = "notify" -> ws_notify_cb(c, data)

\* res.get("payload") or {}
payload_or_empty(res) == IF res.payload = "absent" THEN "{}" ELSE res.payload

\* What each operation does with the result of wait_for(fut, timeout).
ws_get_snapshot_result(fut) ==
    IF fut.data.ok # "true" THEN Raised("RuntimeError", fut.data)
    ELSE Returned(payload_or_empty(fut.data))

ws_entities_replace_result(fut) ==
    IF fut.data.ok # "true" THEN Raised("RuntimeError", fut.data)
    ELSE Returned(payload_or_empty(fut.data))

ws_entities_update_result(fut) ==
    IF fut.data.ok # "true" THEN Raised("RuntimeError", fut.data)
    ELSE Returned(payload_or_empty(fut.data))

ws_put_snapshot_result_unchecked(fut) == Returned("None")

ws_put_snapshot_result(fut) ==
    IF fut.data.ok # "true" THEN Raised("RuntimeError", fut.data)
    ELSE Returned("None")

ws_ping_result(fut) == Returned(fut.val)

ws_notify_result(fut) == Returned(fut.val)

OpResult(op, fut) ==
    CASE op = "get_snapshot" -> ws_get_snapshot_result(fut)
      [] op = "entities_replace" -> ws_entities_replace_result(fut)
      [] op = "entities_update" -> ws_entities_update_result(fut)
      [] op = "put_snapshot" -> ws_put_snapshot_result(fut)
      [] op = "ping" -> ws_ping_result(fut)
      [] op = "notify" -> ws_notify_result(fut)

\* The request each operation fires on EVENT_REQ.
ws_get_snapshot_request(exp_id, cid) ==
    ReqEvent("get_snapshot", exp_id, cid, "absent")
ws_entities_replace_request(exp_id, cid) ==
    ReqEvent("entities_replace", exp_id, cid, "present")
ws_entities_update_request(exp_id, cid) ==
    ReqEvent("entities_update", exp_id, cid, "present")
ws_put_snapshot_request(exp_id, cid) ==
    ReqEvent("put_snapshot", exp_id, cid, "present")
ws_ping_request(exp_id, cid) ==
    ReqEvent("ping", exp_id, cid, "absent")
ws_notify_request(exp_id, cid) ==
    ReqEvent("notify", exp_id, cid, "present")
ws_notify_fire_request_no_id(exp_id, cid) ==
    ReqEvent("notify", NoId, cid, "present")
ws_notify_fire_request(exp_id, cid) ==
    ReqEvent("notify", exp_id, cid, "present")

OpRequest(op, exp_id, cid) ==
    CASE op = "get_snapshot" -> ws_get_snapshot_request(exp_id, cid)
      [] op = "entities_replace" -> ws_entities_replace_request(exp_id, cid)
      [] op = "entities_update" -> ws_entities_update_request(exp_id, cid)
      [] op = "put_snapshot" -> ws_put_snapshot_request(exp_id, cid)
      [] op = "ping" -> ws_ping_request(exp_id, cid)
      [] op = "notify" -> ws_notify_request(exp_id, cid)

\* hass.bus.async_listen(EVENT_RES, _cb) and the unsub() it returns, which
\* every operation calls in its finally block.
async_listen(c) == listeners \cup {c}
unsub(c) == listeners \ {c}

\* One of the six awaiting operations on frame c, up to its first await:
\* token, _entry_id, future, listener, request.
StartCall(c, op, e) ==
    LET cid == token_urlsafe IN
    IF entry_id_raises(e)
    THEN /\ calls' = [calls EXCEPT ![c] =
                 [IdleCall EXCEPT !.pc = "done", !.op = op, !.entry = e,
                                  !.cid = cid, !.fut = NoFut,
                                  !.out = Raised("ValueError", NoData)]]
         /\ UNCHANGED <<listeners, bus>>
    ELSE /\ calls' = [calls EXCEPT ![c] =
                 [IdleCall EXCEPT !.pc = "waiting", !.op = op, !.entry = e,
                                  !.cid = cid, !.exp_id = _entry_id(e)]]
         /\ listeners' = async_listen(c)
         /\ bus' = bus (+) SetToBag({OpRequest(op, _entry_id(e), cid)})

\* A caller (the options flow, an automation) calls an operation.
Start(c, op, e) ==
    /\ calls[c].pc = "idle"
    /\ CIDs \ UsedCids # {}
    /\ StartCall(c, op, e)
    /\ recv' = [recv EXCEPT ![c] = NoData]
    /\ UNCHANGED <<configured, entries, lifeVars>>

\* The bus dispatches one EVENT_RES event to every registered listener.
Deliver(data) ==
    /\ calls' = [c \in Frames |->
          IF c \in listeners
          THEN [calls[c] EXCEPT !.fut = _cb(c, data),
                  !.pc = IF calls[c].pc = "waiting" /\ _cb(c, data).state = "done"
                         THEN "resolved" ELSE calls[c].pc]
          ELSE calls[c]]
    /\ recv' = [c \in Frames |->
          IF c \in listeners /\ calls[c].fut.state = "pending"
             /\ _cb(c, data).state = "done"
          THEN data ELSE recv[c]]
    /\ UNCHANGED <<configured, entries, listeners, bus, lifeVars>>

\* The coroutine leaves its try block with outcome `out`; finally: unsub().
\* Its future is dropped with it.
Exit(c, out) ==
    /\ calls' = [calls EXCEPT ![c].pc = "done", ![c].fut = NoFut,
                              ![c].out = out]
    /\ recv' = [recv EXCEPT ![c] = NoData]
    /\ listeners' = unsub(c)
    /\ UNCHANGED <<configured, entries, bus, lifeVars>>

\* wait_for returns the future's result to the coroutine.
Resume(c) ==
    /\ calls[c].pc = "resolved"
    /\ Exit(c, OpResult(calls[c].op, calls[c].fut))

TimeoutLeaks(c) ==
    /\ calls[c].pc = "waiting"
    /\ calls' = [calls EXCEPT ![c].pc = "done", ![c].fut = NoFut,
                              ![c].out = Raised("TimeoutError", NoData)]
    /\ recv' = [recv EXCEPT ![c] = NoData]
    /\ UNCHANGED <<configured, entries, listeners, bus, lifeVars>>

TimeoutReturnsFalse(c) ==
    /\ calls[c].pc = "waiting"
    /\ Exit(c, Returned("False"))

TimeoutNever(c) == FALSE /\ UNCHANGED vars

\* wait_for's timeout elapses with the future pending: the future is
\* cancelled and TimeoutError raised.
Timeout(c) ==
    /\ calls[c].pc = "waiting"
    /\ Exit(c, Raised("TimeoutError", NoData))

\* The timeout elapses after set_result and before the coroutine has been
\* resumed: the result is dropped and TimeoutError raised.
TimeoutRace(c) ==
    /\ calls[c].pc = "resolved"
    /\ Exit(c, Raised("TimeoutError", NoData))

\* The awaiting task is cancelled: CancelledError at the await.
Cancel(c) ==
    /\ calls[c].pc \in {"waiting", "resolved"}
    /\ Exit(c, Raised("CancelledError", NoData))

\* ws_notify_fire(hass, entry, payload, cid): fire and return the cid.
ws_notify_fire(c, e, cidArg) ==
    /\ calls[c].pc = "idle"
    /\ cidArg # NoCid \/ CIDs \ UsedCids # {}
    /\ IF entry_id_raises(e)
       THEN /\ calls' = [calls EXCEPT ![c] =
                    [IdleCall EXCEPT !.pc = "done", !.op = "notify_fire",
                                     !.entry = e, !.fut = NoFut,
                                     !.out = Raised("ValueError", NoData)]]
            /\ UNCHANGED bus
       ELSE LET cid == IF cidArg # NoCid THEN cidArg ELSE token_urlsafe IN
            /\ calls' = [calls EXCEPT ![c] =
                    [IdleCall EXCEPT !.pc = "done", !.op = "notify_fire",
                                     !.entry = e, !.cid = cid,
                                     !.exp_id = _entry_id(e), !.fut = NoFut,
                                     !.out = ReturnedCid(cid)]]
            /\ bus' = bus (+) SetToBag({ws_notify_fire_request(_entry_id(e), cid)})
    /\ UNCHANGED <<configured, entries, listeners, recv, lifeVars>>

\* ------------------------------------------------------------- system
EntryData == [id : Ids \cup {NoId}, host : {"h1"}, port : {1}]
NoRecord == [present |-> FALSE, device_id |-> "none", coordinator |-> FALSE,
             presence |-> FALSE, unsub_actions |-> FALSE]

\* How a call of QuickBarsCoordinator._async_update_data ended: it returned
\* True ("result"), or raised UpdateFailed from `cause`, or CancelledError.
NoCycle == [kind |-> "none", cause |-> "none"]

\* What async_get_service_info resolves to: nothing, or a service with its
\* TXT id, its first parsed address ("none": no address) and its port.
Hosts == {"h1", "h2"}
Ports == {1, 2}
NoPort == 0
DiscIds == {NoId, IdA, <<" ", "A">>, IdB}
NoInfo == [found |-> FALSE, id |-> NoId, host |-> "none", port |-> NoPort]
Infos == {NoInfo} \cup [found : {TRUE}, id : DiscIds,
                        host : Hosts \cup {"none"}, port : Ports \cup {NoPort}]
\* The _handle_change task of the last notification: its arguments and its
\* locals. It is resolving at its await, done once it has returned.
NoTask == [state |-> "idle", entry |-> "none", service_type |-> "none",
           state_change |-> "none", wanted_id |-> NoId, info |-> NoInfo]

\* A config flow: the form it shows (step), the result of its last step
\* (form, create_entry, abort, or error: the step raised), the errors of that
\* form, the attributes of the handler (_host, _port, _pair_sid, unique_id),
\* and of its last step: the outcome of its pairing call (net), the id and
\* has_token confirm_pair returned, the ok set_credentials returned, the
\* number of set_credentials calls, and the TXT id of the discovery.
NoFlow == [step |-> "none", result |-> "none", errors |-> "none",
           host |-> "none", port |-> NoPort, pair_sid |-> FALSE,
           unique_id |-> NoId, net |-> "none", qb_id |-> NoId,
           has_token |-> FALSE, creds_ok |-> FALSE, creds_calls |-> 0,
           txt_id |-> NoId, flows |-> 0, submits |-> 0]

\* The color of a notify call that has none.
NoColor == [shape |-> "absent", items |-> <<>>, text |-> <<>>]

\* A call of the service: NoNotify before any.
NoNotify == [called |-> FALSE, device_id |-> "none", col_in |-> NoColor,
             entry2 |-> "none", cid |-> NoCid, color |-> <<>>,
             error |-> "none"]

\* A snapshot of the companion app: its entity records and its quick bars.
\* NoSnapshot is self._snapshot = None.
NoSnapshot == [loaded |-> FALSE, entities |-> <<>>, quick_bars |-> <<>>]

\* An options flow on entry `entry`: the form it shows (step), the result of
\* its last step, the errors of that form as key and code, the defaults of
\* the form's fields, the attributes of the handler (_snapshot, _qb_index,
\* _entity_id), the user_input of its last qb_manage submission, the last
\* snapshot get_snapshot returned (fetched), and the requests its bridge
\* calls fired on EVENT_REQ, in order (published).
NoOptions == [entry |-> "none", step |-> "none", result |-> "none",
              errkey |-> "none", errors |-> "none", defaults |-> <<>>,
              snapshot |-> NoSnapshot, qb_index |-> 0, entity_id |-> "",
              user_input |-> <<>>, fetched |-> NoSnapshot,
              published |-> <<>>, flows |-> 0, submits |-> 0]

\* A call of the service camera_toggle: before any, NoCamera. Afterwards the
\* call data, the handler that was registered, the outcome ("fired",
\* "Invalid" from the schema, "KeyError" from the handler) and the data of
\* the quickbars.open event that was fired.
NoCamera == [calls |-> 0, result |-> "none", handler |-> "none",
             call |-> <<>>, data |-> <<>>]

\* The entries the config flow has created: e1 always, e2 or not; an entry
\* holds the identity of its pairing, or none (an entry of an old version).
InitWith(configs, e2ids) ==
    /\ configured \in configs
    /\ entries \in {f \in [Entries -> EntryData] :
                       /\ f["e1"].id = IdA
                       /\ f["e2"].id \in e2ids}
    /\ calls = [c \in Frames |-> IdleCall]
    /\ listeners = {}
    /\ bus = EmptyBag
    /\ recv = [c \in Frames |-> NoData]
    /\ setup = [e \in Entries |-> "not_loaded"]
    /\ hass_data = [e \in Entries |-> NoRecord]
    /\ devices = {}
    /\ presence = [e \in Entries |-> "none"]
    /\ browsers = [e \in Entries |-> 0]
    /\ hc = NoTask
    /\ lookups = 0
    /\ rechecks = [e \in Entries |-> 0]
    /\ raised = {}
    /\ notify_svc = "none"
    /\ action_listeners = {}
    /\ svc = NoNotify
    /\ budget = [setups |-> 0, notifs |-> 0, svcs |-> 0, cycles |-> 0,
                 actions |-> 0]
    /\ cycle = [e \in Entries |-> NoCycle]
    /\ flow = NoFlow
    /\ opt = NoOptions
    /\ cam = NoCamera

\* ------------------------------------------------------------- __init__.py
SERVICE_TYPE == "_quickbars._tcp.local."
ServiceTypes == {SERVICE_TYPE, "_other._tcp.local."}
StateChanges == {"Added", "Updated", "Removed"}
DeviceId(e) == IF e = "e1" THEN "d1" ELSE "d2"
DeviceRefs == {"none", "d1", "d2", "d9"}

\* str.strip() and str.lower()
RECURSIVE lstrip(_)
lstrip(s) == IF s # <<>> /\ Head(s) = " " THEN lstrip(Tail(s)) ELSE s
RECURSIVE rstrip(_)
rstrip(s) ==
    IF s # <<>> /\ s[Len(s)] = " " THEN rstrip(SubSeq(s, 1, Len(s) - 1)) ELSE s
strip(s) == rstrip(lstrip(s))
lower_char(ch) == CASE ch = "A" -> "a" [] ch = "B" -> "b" [] OTHER -> ch
lower(s) == [i \in 1..Len(s) |-> lower_char(s[i])]

Error(where, entry, error) ==
    [where |-> where, entry |-> entry, error |-> error]

\* QuickBarsCoordinator._async_update_data, from the outcome of its ws_ping:
\* True is returned; `not ok` raises UpdateFailed, which the handler of
\* Exception wraps as it wraps every error but CancelledError, re-raised.
_async_update_data_unchecked(out) ==
    IF out.kind = "result" THEN [kind |-> "result", cause |-> "none"]
    ELSE IF out.kind = "CancelledError"
    THEN [kind |-> "CancelledError", cause |-> "none"]
    ELSE [kind |-> "UpdateFailed", cause |-> out.kind]

_async_update_data(out) ==
    IF out.kind = "result" /\ out.ret = "True"
    THEN [kind |-> "result", cause |-> "none"]
    ELSE IF out.kind = "result"
    THEN [kind |-> "UpdateFailed", cause |-> "UpdateFailed"]
    ELSE IF out.kind = "CancelledError"
    THEN [kind |-> "CancelledError", cause |-> "none"]
    ELSE [kind |-> "UpdateFailed", cause |-> out.kind]

\* _Presence.start: a new AsyncServiceBrowser, assigned to _browser.
start_browsers(e) == [browsers EXCEPT ![e] = @ + 1]
start_presence(e) == [presence EXCEPT ![e] = "watching"]

\* async_setup_entry up to the await of the first refresh: the registry
\* record, the device, the presence tracker started, and the coordinator's
\* first ws_ping under way.
SetupBegin(e) ==
    /\ setup[e] = "not_loaded"
    /\ calls[CoordCall(e)].pc = "idle"
    /\ budget.setups < MaxSetups
    /\ CIDs \ UsedCids # {}
    /\ budget' = [budget EXCEPT !.setups = @ + 1]
    /\ hass_data' = [hass_data EXCEPT ![e] =
           [NoRecord EXCEPT !.present = TRUE, !.device_id = DeviceId(e)]]
    /\ devices' = devices \cup
           {[id |-> DeviceId(e),
             ident |-> IF entries[e].id # NoId THEN entries[e].id ELSE <<e>>]}
    /\ presence' = start_presence(e)
    /\ browsers' = start_browsers(e)
    /\ setup' = [setup EXCEPT ![e] = "refreshing"]
    /\ StartCall(CoordCall(e), "ping", e)
    /\ recv' = [recv EXCEPT ![CoordCall(e)] = NoData]
    /\ UNCHANGED <<configured, entries, hc, lookups, rechecks, raised,
                   notify_svc, action_listeners, svc, cycle, flow, opt, cam>>

\* The first refresh succeeded (ws_ping returned True): the services, the
\* quickbars.action listener, and the handles stored in the registry record.
SetupFinish(e) ==
    /\ setup[e] = "refreshing"
    /\ calls[CoordCall(e)].pc = "done"
    /\ _async_update_data(calls[CoordCall(e)].out).kind = "result"
    /\ cycle' = [cycle EXCEPT ![e] = _async_update_data(calls[CoordCall(e)].out)]
    /\ calls' = [calls EXCEPT ![CoordCall(e)] = IdleCall]
    /\ notify_svc' = e
    /\ action_listeners' = action_listeners \cup {e}
    /\ hass_data' = [hass_data EXCEPT ![e].presence = TRUE,
                                      ![e].coordinator = TRUE,
                                      ![e].unsub_actions = TRUE]
    /\ setup' = [setup EXCEPT ![e] = "loaded"]
    /\ UNCHANGED <<configured, entries, listeners, bus, recv, devices,
                   presence, browsers, hc, lookups, rechecks, raised, svc,
                   budget, flow, opt, cam>>

\* The first refresh failed (ws_ping returned False or raised):
\* async_config_entry_first_refresh raises out of async_setup_entry.
SetupFail(e) ==
    /\ setup[e] = "refreshing"
    /\ calls[CoordCall(e)].pc = "done"
    /\ _async_update_data(calls[CoordCall(e)].out).kind # "result"
    /\ cycle' = [cycle EXCEPT ![e] = _async_update_data(calls[CoordCall(e)].out)]
    /\ calls' = [calls EXCEPT ![CoordCall(e)] = IdleCall]
    /\ raised' = raised \cup {Error("async_setup_entry", e,
                     IF cycle'[e].kind = "CancelledError"
                     THEN "CancelledError" ELSE "ConfigEntryNotReady")}
    /\ setup' = [setup EXCEPT ![e] = "not_loaded"]
    /\ UNCHANGED <<configured, entries, listeners, bus, recv, hass_data,
                   devices, presence, browsers, hc, lookups, rechecks,
                   notify_svc, action_listeners, svc, budget, flow, opt, cam>>

\* A refresh of the coordinator the registry record holds, as requested by
\* _handle_change or due by update_interval: _async_update_data up to the
\* await in its ws_ping.
Refresh(e) ==
    /\ hass_data[e].coordinator
    /\ calls[CoordCall(e)].pc = "idle"
    /\ budget.cycles < MaxCycles
    /\ CIDs \ UsedCids # {}
    /\ budget' = [budget EXCEPT !.cycles = @ + 1]
    /\ StartCall(CoordCall(e), "ping", e)
    /\ recv' = [recv EXCEPT ![CoordCall(e)] = NoData]
    /\ UNCHANGED <<configured, entries, setup, hass_data, devices, presence,
                   browsers, hc, lookups, rechecks, raised, notify_svc,
                   action_listeners, svc, cycle, flow, opt, cam>>

\* The ws_ping of a refresh has ended: _async_update_data returns or raises.
RefreshEnd(e) ==
    /\ setup[e] # "refreshing"
    /\ calls[CoordCall(e)].pc = "done"
    /\ cycle' = [cycle EXCEPT ![e] = _async_update_data(calls[CoordCall(e)].out)]
    /\ calls' = [calls EXCEPT ![CoordCall(e)] = IdleCall]
    /\ raised' = IF cycle'[e].kind = "result" THEN raised
                 ELSE raised \cup {Error("_async_update_data", e,
                                         cycle'[e].kind)}
    /\ UNCHANGED <<configured, entries, listeners, bus, recv, setup,
                   hass_data, devices, presence, browsers, hc, lookups,
                   rechecks, notify_svc, action_listeners, svc, budget, flow,
                   opt, cam>>

\* _Presence.stop: cancel the browser if there is one.
stop_browsers(e) ==
    IF presence[e] = "watching" THEN [browsers EXCEPT ![e] = @ - 1]
    ELSE browsers
stop_presence(e) ==
    IF presence[e] = "watching" THEN [presence EXCEPT ![e] = "stopped"]
    ELSE presence

\* start() and stop() called on the tracker of entry e by any caller.
start(e) ==
    /\ budget.setups < MaxSetups
    /\ budget' = [budget EXCEPT !.setups = @ + 1]
    /\ browsers' = start_browsers(e)
    /\ presence' = start_presence(e)
    /\ UNCHANGED <<configured, entries, bridgeVars, setup, hass_data, devices,
                   hc, lookups, rechecks, raised, notify_svc,
                   action_listeners, svc, cycle, flow, opt, cam>>

stop(e) ==
    /\ browsers' = stop_browsers(e)
    /\ presence' = stop_presence(e)
    /\ UNCHANGED <<configured, entries, bridgeVars, setup, hass_data, devices,
                   hc, lookups, rechecks, raised, notify_svc,
                   action_listeners, svc, budget, cycle, flow, opt, cam>>

\* async_unload_entry: pop the record, unsubscribe the action listener, stop
\* the presence tracker the record held.
async_unload_entry(e) ==
    /\ setup[e] = "loaded"
    /\ hass_data' = [hass_data EXCEPT ![e] = NoRecord]
    /\ action_listeners' =
          IF hass_data[e].unsub_actions THEN action_listeners \ {e}
          ELSE action_listeners
    /\ browsers' = IF hass_data[e].presence THEN stop_browsers(e) ELSE browsers
    /\ presence' = IF hass_data[e].presence THEN stop_presence(e) ELSE presence
    /\ setup' = [setup EXCEPT ![e] = "not_loaded"]
    /\ UNCHANGED <<configured, entries, bridgeVars, devices, hc, lookups,
                   rechecks, raised, notify_svc, svc, budget, cycle, flow,
                   opt, cam>>

\* state_change is ServiceStateChange.Removed
is_removal_never(state_change) == FALSE
is_removal(state_change) == state_change = "Removed"

\* not (not found_id or found_id != wanted_id)
id_matches_any(found_id, wanted_id) == found_id # NoId
id_matches(found_id, wanted_id) == found_id # NoId /\ found_id = wanted_id

\* _on_change creates the _handle_change task, which returns at once for
\* another service type or a removal, and else runs to its await of
\* async_get_service_info (whose answer, info, is under way).
_on_change(e, service_type, state_change, info) ==
    /\ browsers[e] > 0
    /\ hc.state # "resolving"
    /\ budget.notifs < MaxNotifs
    /\ budget' = [budget EXCEPT !.notifs = @ + 1]
    /\ IF service_type # SERVICE_TYPE
       THEN /\ hc' = [NoTask EXCEPT !.state = "done", !.entry = e,
                                    !.service_type = service_type,
                                    !.state_change = state_change]
            /\ UNCHANGED lookups
       ELSE IF is_removal(state_change)
       THEN /\ hc' = [NoTask EXCEPT !.state = "done", !.entry = e,
                                    !.service_type = service_type,
                                    !.state_change = state_change,
                                    !.wanted_id = lower(strip(entries[e].id))]
            /\ UNCHANGED lookups
       ELSE /\ hc' = [state |-> "resolving", entry |-> e,
                      service_type |-> service_type,
                      state_change |-> state_change,
                      wanted_id |-> lower(strip(entries[e].id)),
                      info |-> info]
            /\ lookups' = lookups + 1
    /\ UNCHANGED <<configured, entries, bridgeVars, setup, hass_data, devices,
                   presence, browsers, rechecks, raised, notify_svc,
                   action_listeners, svc, cycle, flow, opt, cam>>

\* _handle_change from the answer of async_get_service_info to its end.
_handle_change ==
    /\ hc.state = "resolving"
    /\ hc' = [hc EXCEPT !.state = "done"]
    /\ LET e == hc.entry
           info == hc.info
           found_id == lower(strip(info.id))
           host == IF info.host # "none" THEN info.host ELSE entries[e].host
           port == IF info.port # NoPort THEN info.port ELSE entries[e].port
       IN IF /\ info.found
             /\ id_matches(found_id, hc.wanted_id)
             /\ (host # entries[e].host \/ port # entries[e].port)
          THEN /\ entries' = [entries EXCEPT ![e].host = host,
                                             ![e].port = port]
               /\ IF ~hass_data[e].present
                  THEN /\ raised' = raised \cup
                              {Error("_handle_change", e, "KeyError")}
                       /\ UNCHANGED rechecks
                  ELSE /\ rechecks' =
                             IF hass_data[e].coordinator
                             THEN [rechecks EXCEPT ![e] = @ + 1]
                             ELSE rechecks
                       /\ UNCHANGED raised
          ELSE UNCHANGED <<entries, rechecks, raised>>
    /\ UNCHANGED <<configured, bridgeVars, setup, hass_data, devices, presence,
                   browsers, lookups, notify_svc, action_listeners, svc,
                   budget, cycle, flow, opt, cam>>

\* _entry_for_device: the entry of the device's identifier, else the only
\* entry, else ValueError.
_entry_for_device(device_id) ==
    LET devs == {d \in devices : d.id = device_id}
        found == IF device_id # "none" /\ devs # {}
                 THEN {ent \in configured :
                         LET ident == (CHOOSE d \in devs : TRUE).ident
                         IN entries[ent].id = ident \/ <<ent>> = ident}
                 ELSE {}
    IN IF found # {} THEN CHOOSE ent \in found : TRUE
       ELSE IF Cardinality(configured) = 1
            THEN CHOOSE ent \in configured : TRUE
            ELSE "ValueError"

\* The event _svc_notify fires for the companion app: the payload with the
\* cid, under the event type quickbars.notify.
svc_notify_event(entry2, cid) ==
    Event("quickbars.notify", NoId, "none", cid, "present", "none", "none")
svc_notification_sent(device_id, entry2, cid) ==
    Event("quickbars.notification_sent", NoId, "none", cid, "absent",
          device_id, entry2)

\* The color of a notify call: absent, a list, a mapping, a string, or a
\* value of another type. A channel is an int, a string that int() parses,
\* a string that it does not (word), or None.
IntVal(n) == [kind |-> "int", val |-> n]
NumStr(n) == [kind |-> "numstr", val |-> n]
Word == [kind |-> "word", val |-> 0]
None == [kind |-> "none", val |-> 0]
Numbers == {IntVal(n) : n \in {-5, 0, 128, 300}} \cup {NumStr(255)}
Channels == Numbers \cup {Word, None}
ColorList(items) == [shape |-> "list", items |-> items, text |-> <<>>]
ColorDict(items) == [shape |-> "dict", items |-> items, text |-> <<>>]
ColorStr(text) == [shape |-> "str", items |-> <<>>, text |-> text]
ColorOther == [shape |-> "int", items |-> <<>>, text |-> <<>>]
ColorTexts ==
    {<<>>, <<" ">>, <<"#", "f", "f", "0", "0", "8", "0">>, <<"r", "e", "d">>,
     <<" ", "r", "e", "d", " ">>}
Colors ==
    {NoColor, ColorOther}
    \cup {ColorList(<<r, g, b>>) : r \in Channels, g \in Channels,
                                   b \in Channels}
    \cup {ColorList(<<>>), ColorList(<<IntVal(0), IntVal(0)>>),
          ColorList(<<IntVal(0), IntVal(0), IntVal(0), IntVal(0)>>)}
    \cup {ColorDict([r |-> r, g |-> g, b |-> b]) :
             r \in Channels, g \in Channels, b \in Channels}
    \cup {ColorDict([r |-> IntVal(0), g |-> IntVal(0)]),
          ColorDict([r |-> IntVal(0), g |-> IntVal(0), b |-> IntVal(0), a |-> Word])}
    \cup {ColorStr(text) : text \in ColorTexts}

\* int(x): the exception it raises, or "none"; and its value.
int_error(x) ==
    CASE x.kind = "word" -> "ValueError"
      [] x.kind = "none" -> "TypeError"
      [] OTHER -> "none"
int(x) == x.val
_clamp8(x) == IF x < 0 THEN 0 ELSE IF x > 255 THEN 255 ELSE x

\* f"#{r:02x}{g:02x}{b:02x}"
hex_digit(n) ==
    <<"0", "1", "2", "3", "4", "5", "6", "7", "8", "9", "a", "b", "c", "d",
      "e", "f">>[n + 1]
format_02x(n) ==
    IF n < 16 THEN <<"0", hex_digit(n)>>
    ELSE <<hex_digit(n \div 16), hex_digit(n % 16)>>
format_hex(r, g, b) ==
    <<"#">> \o format_02x(r) \o format_02x(g) \o format_02x(b)

\* The three channels the normalization reads, in the order it reads them,
\* or none when the color is neither a list of three nor a mapping with the
\* keys r, g and b.
rgb_of(col_in) ==
    CASE col_in.shape = "list" /\ Len(col_in.items) = 3 -> col_in.items
      [] col_in.shape = "dict"
         /\ {"r", "g", "b"} \subseteq DOMAIN col_in.items ->
             <<col_in.items["r"], col_in.items["g"], col_in.items["b"]>>
      [] OTHER -> <<>>
\* The exception of the first int() that raises, or "none".
color_error(col_in) ==
    LET rgb == rgb_of(col_in)
        bad == {i \in 1..Len(rgb) : int_error(rgb[i]) # "none"}
    IN IF bad = {} THEN "none"
       ELSE int_error(rgb[CHOOSE i \in bad : \A k \in bad : i <= k])
\* color_hex, with <<>> for None.
color_hex(col_in) ==
    LET rgb == rgb_of(col_in)
    IN IF rgb # <<>>
       THEN format_hex(_clamp8(int(rgb[1])), _clamp8(int(rgb[2])),
                       _clamp8(int(rgb[3])))
       ELSE IF col_in.shape = "str" THEN strip(col_in.text)
       ELSE <<>>

\* The service quickbars.notify, as registered by the last entry set up:
\* the entry is resolved, the color normalized, then the events are fired.
\* The payload holds no color when color_hex is None.
_svc_notify(device_id, cidArg, col_in) ==
    /\ notify_svc # "none"
    /\ budget.svcs < MaxSvcs
    /\ cidArg # NoCid \/ CIDs \ UsedCids # {}
    /\ budget' = [budget EXCEPT !.svcs = @ + 1]
    /\ LET entry2 == _entry_for_device(device_id)
           cid == IF cidArg # NoCid THEN cidArg ELSE token_urlsafe
           call == [NoNotify EXCEPT !.called = TRUE, !.device_id = device_id,
                                    !.col_in = col_in]
       IN IF entry2 = "ValueError"
          THEN /\ raised' = raised \cup
                      {Error("_svc_notify", notify_svc, "ValueError")}
               /\ svc' = [call EXCEPT !.error = "ValueError"]
               /\ UNCHANGED bus
          ELSE IF color_error(col_in) # "none"
          THEN /\ raised' = raised \cup
                      {Error("_svc_notify", notify_svc, color_error(col_in))}
               /\ svc' = [call EXCEPT !.entry2 = entry2,
                                      !.error = color_error(col_in)]
               /\ UNCHANGED bus
          ELSE /\ svc' = [call EXCEPT !.entry2 = entry2, !.cid = cid,
                                      !.color = color_hex(col_in)]
               /\ IF hass_data[notify_svc].present
                  THEN /\ bus' = bus (+) SetToBag({svc_notify_event(entry2, cid)})
                               (+) SetToBag({svc_notification_sent(
                                     hass_data[notify_svc].device_id,
                                     entry2, cid)})
                       /\ UNCHANGED raised
                  ELSE /\ bus' = bus (+) SetToBag({svc_notify_event(entry2, cid)})
                       /\ raised' = raised \cup
                              {Error("_svc_notify", notify_svc, "KeyError")}
    /\ UNCHANGED <<configured, entries, calls, listeners, recv, setup,
                   hass_data, devices, presence, browsers, hc, lookups,
                   rechecks, notify_svc, action_listeners, cycle, flow,
                   opt, cam>>

\* ------------------------------------------------------------- config_flow.py
\* What the pairing calls of QuickBarsClient come back with: get_pair_code
\* (a sid, or an exception), confirm_pair (an exception, or id, port and
\* has_token, each present or not), set_credentials (an exception, ok, or
\* not ok).
PairCodeOutcomes == {"ok", "fail"}
ConfirmFail == [net |-> "fail", id |-> NoId, port |-> NoPort,
                has_token |-> FALSE]
ConfirmOutcomes ==
    {ConfirmFail} \cup [net : {"ok"}, id : Ids \cup {NoId},
                        port : {NoPort, 2}, has_token : BOOLEAN]
CredsOutcomes == {"fail", "ok", "rejected"}

\* Everything a step of the config flow leaves alone.
flowFrame == <<calls, listeners, bus, recv, setup, hass_data, devices,
               presence, browsers, hc, lookups, rechecks, raised, notify_svc,
               action_listeners, svc, budget, cycle, opt, cam>>

\* async_show_form(step_id, errors)
async_show_form(f, step_id, errors) ==
    [f EXCEPT !.step = step_id, !.result = "form", !.errors = errors]

\* The entries _abort_if_unique_id_configured finds for a unique id (the
\* unique id of an entry is the id of its data: both are the id of its
\* pairing).
Matching_any(unique) == configured
Matching_none(unique) == {}
Matching(unique) == {e \in configured : entries[e].id = unique}

\* async_create_entry(data): the new entry.
FreeEntry == IF "e1" \notin configured THEN "e1" ELSE "e2"
FlowIdle == flow.result \in {"none", "create_entry", "abort"}
FlowShown(step_id) ==
    /\ flow.step = step_id
    /\ flow.result \in {"form", "error"}
    /\ flow.submits < MaxSubmits

\* async_step_user(None): a flow begun by the user shows the address form.
async_step_user_form ==
    /\ FlowIdle
    /\ flow.flows < MaxFlows
    /\ flow' = async_show_form([NoFlow EXCEPT !.flows = flow.flows + 1],
                               "user", "none")
    /\ UNCHANGED <<configured, entries, flowFrame>>

\* async_step_user(user_input): get_pair_code, then async_step_pair(None).
async_step_user(host, port, net) ==
    /\ FlowShown("user")
    /\ LET f == [flow EXCEPT !.host = host, !.port = port, !.net = net,
                             !.submits = @ + 1]
       IN flow' = IF net = "fail"
                  THEN async_show_form(f, "user", "tv_unreachable")
                  ELSE async_show_form([f EXCEPT !.pair_sid = TRUE],
                                       "pair", "none")
    /\ UNCHANGED <<configured, entries, flowFrame>>

\* async_step_zeroconf(discovery_info): a flow begun by a discovery.
async_step_zeroconf(host, port, txt) ==
    /\ FlowIdle
    /\ flow.flows < MaxFlows
    /\ LET unique == strip(txt)
           f == [NoFlow EXCEPT !.flows = flow.flows + 1, !.txt_id = unique]
       IN IF host = "none" \/ port = NoPort
          THEN /\ flow' = [f EXCEPT !.result = "abort", !.errors = "unknown"]
               /\ UNCHANGED entries
          ELSE IF unique # NoId /\ Matching(unique) # {}
          THEN /\ flow' = [f EXCEPT !.result = "abort",
                                    !.errors = "already_configured",
                                    !.unique_id = unique]
               /\ entries' = [e \in Entries |->
                      IF e \in Matching(unique)
                      THEN [id |-> unique, host |-> host, port |-> port]
                      ELSE entries[e]]
          ELSE /\ flow' = async_show_form(
                             [f EXCEPT !.unique_id = unique, !.host = host,
                                       !.port = port],
                             "zeroconf_confirm", "none")
               /\ UNCHANGED entries
    /\ UNCHANGED <<configured, flowFrame>>

\* async_step_zeroconf_confirm(user_input): get_pair_code, then
\* async_step_pair(None); on an exception the form of step user.
async_step_zeroconf_confirm(net) ==
    /\ FlowShown("zeroconf_confirm")
    /\ LET f == [flow EXCEPT !.net = net, !.submits = @ + 1]
       IN flow' = IF net = "fail"
                  THEN async_show_form(f, "user", "tv_unreachable")
                  ELSE async_show_form([f EXCEPT !.pair_sid = TRUE],
                                       "pair", "none")
    /\ UNCHANGED <<configured, entries, flowFrame>>

\* async_set_unique_id(qb_id) in async_step_pair
pair_unique_id_kept(f, qb_id) ==
    IF f.unique_id # NoId THEN f.unique_id ELSE qb_id
pair_unique_id(f, qb_id) == qb_id

\* async_step_pair(user_input): confirm_pair (outside any try), then the
\* entry, or async_step_token(None) when the app holds no token.
async_step_pair(out) ==
    /\ FlowShown("pair")
    /\ LET f == [flow EXCEPT !.net = out.net, !.submits = @ + 1,
                             !.qb_id = out.id, !.has_token = out.has_token]
           qb_port == IF out.port # NoPort THEN out.port ELSE flow.port
           unique == pair_unique_id(flow, out.id)
           f2 == [f EXCEPT !.unique_id = unique]
       IN IF out.net = "fail"
          THEN /\ flow' = [f EXCEPT !.result = "error", !.errors = "none"]
               /\ UNCHANGED <<configured, entries>>
          ELSE IF out.id = NoId
          THEN /\ flow' = async_show_form(f, "pair", "no_unique_id")
               /\ UNCHANGED <<configured, entries>>
          ELSE IF Matching(unique) # {}
          THEN /\ flow' = [f2 EXCEPT !.result = "abort",
                                     !.errors = "already_configured"]
               /\ entries' = [e \in Entries |->
                      IF e \in Matching(unique)
                      THEN [id |-> out.id, host |-> flow.host,
                            port |-> qb_port]
                      ELSE entries[e]]
               /\ UNCHANGED configured
          ELSE IF ~out.has_token
          THEN /\ flow' = async_show_form([f2 EXCEPT !.port = qb_port],
                                          "token", "none")
               /\ UNCHANGED <<configured, entries>>
          ELSE /\ configured # Entries
               /\ flow' = [f2 EXCEPT !.port = qb_port,
                                     !.result = "create_entry",
                                     !.errors = "none"]
               /\ configured' = configured \cup {FreeEntry}
               /\ entries' = [entries EXCEPT ![FreeEntry] =
                      [id |-> out.id, host |-> flow.host, port |-> qb_port]]
    /\ UNCHANGED flowFrame

\* res.get("ok") of set_credentials
creds_accepted_any(res) == res # "fail"
creds_accepted(res) == res = "ok"

\* async_step_token(user_input): set_credentials, then the entry.
async_step_token(res) ==
    /\ FlowShown("token")
    /\ LET f == [flow EXCEPT !.net = IF res = "fail" THEN "fail" ELSE "ok",
                             !.submits = @ + 1, !.creds_calls = @ + 1,
                             !.creds_ok = (res = "ok")]
       IN IF res = "fail"
          THEN /\ flow' = async_show_form(f, "token", "tv_unreachable")
               /\ UNCHANGED <<configured, entries>>
          ELSE IF ~creds_accepted(res)
          THEN /\ flow' = async_show_form(f, "token", "creds_invalid")
               /\ UNCHANGED <<configured, entries>>
          ELSE /\ configured # Entries
               /\ flow' = [f EXCEPT !.result = "create_entry",
                                    !.errors = "none"]
               /\ configured' = configured \cup {FreeEntry}
               /\ entries' = [entries EXCEPT ![FreeEntry] =
                      [id |-> flow.unique_id, host |-> flow.host,
                       port |-> flow.port]]
    /\ UNCHANGED flowFrame

\* The pairing flow, begun by the user or by a discovery, with no entry yet
\* or with the entry of an earlier pairing.
FlowInit == InitWith({{}, {"e1"}}, {IdB})

FlowNext ==
    \/ async_step_user_form
    \/ \E host \in Hosts, port \in Ports, net \in PairCodeOutcomes :
          async_step_user(host, port, net)
    \/ \E host \in Hosts \cup {"none"}, port \in Ports \cup {NoPort},
          txt \in DiscIds : async_step_zeroconf(host, port, txt)
    \/ \E net \in PairCodeOutcomes : async_step_zeroconf_confirm(net)
    \/ \E out \in ConfirmOutcomes : async_step_pair(out)
    \/ \E res \in CredsOutcomes : async_step_token(res)

FlowSpec == FlowInit /\ [][FlowNext]_vars

\* Everything that writes the data of an entry: the pairing flow, and the
\* trackers of the entries being set up, which discover the app at another
\* address under one identity or the other.
DriftInfos == [found : {TRUE}, id : {IdA, IdB}, host : {"h2"}, port : {2}]

IdentityNext ==
    \/ FlowNext
    \/ \E e \in configured : SetupBegin(e)
    \/ \E e \in configured, info \in DriftInfos :
          _on_change(e, SERVICE_TYPE, "Updated", info)
    \/ _handle_change

IdentitySpec == FlowInit /\ [][IdentityNext]_vars

\* The bridge operations: an entry with an identity and one without.
Init == InitWith({Entries}, {NoId})

Next ==
    \/ \E c \in Calls, op \in Ops, e \in configured : Start(c, op, e)
    \/ \E data \in ResData : Deliver(data)
    \/ \E c \in Calls : Resume(c)
    \/ \E c \in Calls : Timeout(c)
    \/ \E c \in Calls : TimeoutRace(c)
    \/ \E c \in Calls : Cancel(c)
    \/ \E c \in Calls, e \in configured, cidArg \in CIDs \cup {NoCid} :
          ws_notify_fire(c, e, cidArg)

Spec == Init /\ [][Next]_vars

\* The event loop runs every callback it has scheduled: the timer of a
\* wait_for fires, and a coroutine whose future is done is resumed.
LiveSpec ==
    /\ Init /\ [][Next]_vars
    /\ \A c \in Calls : WF_vars(Timeout(c)) /\ WF_vars(Resume(c))

\* The entry lifecycle: setup with the coordinator's first ping, and unload;
\* with the discovery notifications (PresenceSpec), with the notify service
\* (NotifySpec).
LifeInit == InitWith({{"e1"}, Entries}, {IdB})
\* One tracked entry; the services of other devices are still discovered.
PresenceInit == InitWith({{"e1"}}, {IdB})

CoordFrames == {CoordCall(e) : e \in Entries}
\* The responses to a ping: it reads no payload.
PingResData == {data \in ResData : data.payload = "absent"}

LifeNext ==
    \/ \E e \in configured : SetupBegin(e)
    \/ \E data \in PingResData : Deliver(data)
    \/ \E c \in CoordFrames : Resume(c)
    \/ \E c \in CoordFrames : Timeout(c)
    \/ \E c \in CoordFrames : TimeoutRace(c)
    \/ \E c \in CoordFrames : Cancel(c)
    \/ \E e \in configured : SetupFinish(e)
    \/ \E e \in configured : SetupFail(e)
    \/ \E e \in configured : async_unload_entry(e)

PresenceNext ==
    \/ LifeNext
    \/ \E e \in configured, st \in ServiceTypes, sc \in StateChanges :
          \E info \in IF st = SERVICE_TYPE /\ sc # "Removed" THEN Infos
                       ELSE {NoInfo} : _on_change(e, st, sc, info)
    \/ _handle_change

NotifyNext ==
    \/ LifeNext
    \/ \E d \in DeviceRefs, cidArg \in CIDs \cup {NoCid} :
          _svc_notify(d, cidArg, NoColor)

\* One _Presence object and its callers.
TrackerNext ==
    \/ \E e \in configured : start(e)
    \/ \E e \in configured : stop(e)
    \/ \E e \in configured, st \in ServiceTypes, sc \in StateChanges :
          \E info \in IF st = SERVICE_TYPE /\ sc # "Removed" THEN Infos
                       ELSE {NoInfo} : _on_change(e, st, sc, info)
    \/ _handle_change

\* The connectivity coordinator: the first refresh of each setup and the
\* refreshes of a loaded entry, for an entry with an identity and one without.
MonitorNext ==
    \/ LifeNext
    \/ \E e \in configured : Refresh(e)
    \/ \E e \in configured : RefreshEnd(e)

MonitorSpec == Init /\ [][MonitorNext]_vars

PresenceSpec == PresenceInit /\ [][PresenceNext]_vars
TrackerSpec == PresenceInit /\ [][TrackerNext]_vars
NotifySpec == LifeInit /\ [][NotifyNext]_vars

\* ------------------------------------------------------------- bridge claims
InFlight == {c \in Frames : calls[c].pc \in {"waiting", "resolved"}}
Exits(c) == calls[c].pc \in {"waiting", "resolved"} /\ calls'[c].pc = "done"
Begins(c) == calls[c].pc = "idle" /\ calls'[c].pc # "idle"

\* C1: the registered response listeners are exactly the listeners of the
\* calls in flight, so their number equals the number of calls in flight,
\* whichever way each earlier call ended.
C1_ListenersAreCallsInFlight ==
    /\ listeners = InFlight
    /\ Cardinality(listeners) = Cardinality(InFlight)

C1_Witness ==
    /\ \E a \in Calls : calls[a].out.kind = "TimeoutError"
    /\ \E b \in Calls : calls[b].out.kind = "CancelledError"
    /\ listeners = {}

\* C2: a call that leaves its wait with no matching response delivered (its
\* future still pending) and without being cancelled raises TimeoutError,
\* and its listener is unregistered by that step.
C2_NoResponseTimesOut ==
    [][\A c \in Frames :
         (calls[c].pc = "waiting" /\ calls'[c].pc = "done"
          /\ calls'[c].out.kind # "CancelledError")
         => (calls'[c].out.kind = "TimeoutError" /\ c \notin listeners')]_vars

C2_Witness ==
    \E c \in Calls :
        /\ calls[c].op = "entities_replace"
        /\ calls[c].out.kind = "TimeoutError"
        /\ c \notin listeners

\* C3: a future is set only by a response whose cid and id both equal the
\* request's; any other response leaves the request pending.
C3_OnlyMatchingResponseResolves ==
    \A c \in Frames :
        calls[c].fut.state = "done"
        => (recv[c].cid = calls[c].cid /\ recv[c].id = calls[c].exp_id)

C3_Witness ==
    \E a, b \in Calls :
        /\ a # b
        /\ calls[a].pc = "resolved"
        /\ calls[b].pc = "waiting" /\ calls[b].op = "notify"
        /\ calls[a].exp_id = calls[b].exp_id

\* C4: of two requests outstanding for the same identity with distinct cids,
\* the response that resolves one leaves the other's future untouched, and a
\* request that returns a result returns the payload of the response carrying
\* its own cid.
C4_ConcurrentRequestsIsolated ==
    [][\A a, b \in Frames :
         (a # b /\ a \in InFlight /\ b \in InFlight
          /\ calls[a].exp_id = calls[b].exp_id /\ calls[a].cid # calls[b].cid)
         => /\ (calls[b].fut.state = "pending" /\ calls'[b].fut.state = "done"
                /\ recv'[b].cid = calls[b].cid)
               => calls'[a].fut = calls[a].fut
            /\ (calls[a].pc = "resolved" /\ calls'[a].pc = "done"
                /\ calls'[a].out.kind = "result")
               => /\ recv[a].cid = calls[a].cid
                  /\ calls[a].op \in {"get_snapshot", "entities_replace",
                                      "entities_update"}
                     => calls'[a].out.ret = payload_or_empty(recv[a])]_vars

C4_Witness ==
    \E a, b \in Calls :
        /\ calls[a].op = "entities_update" /\ calls[b].op = "entities_update"
        /\ calls[a].exp_id = calls[b].exp_id
        /\ calls[a].out = Returned("p1")
        /\ calls[b].out = Returned("{}")

\* C5: an operation called on an entry without identity, ws_notify_fire
\* included, raises ValueError in the step that begins it, fires no event and
\* registers no listener; and a call that has ended is never started again.
C5_MissingIdentityFailsFirst ==
    [][\A c \in Frames :
         /\ (Begins(c) /\ entries[calls'[c].entry].id = NoId)
            => /\ calls'[c].pc = "done"
               /\ calls'[c].out = Raised("ValueError", NoData)
               /\ bus' = bus
               /\ listeners' = listeners
         /\ calls[c].out.kind = "ValueError" => calls'[c] = calls[c]]_vars

C5_Witness ==
    /\ \E c \in Calls :
          calls[c].op = "notify_fire" /\ calls[c].out.kind = "ValueError"
    /\ \E c \in Calls :
          calls[c].op = "ping" /\ calls[c].out.kind = "ValueError"
    /\ bus = EmptyBag

\* C6 as claimed: every operation resumed with a response whose ok is false or
\* absent raises RuntimeError carrying that response.
C6_Claimed ==
    [][\A c \in Frames :
         (calls[c].pc = "resolved" /\ calls'[c].pc = "done"
          /\ recv[c].ok # "true"
          /\ calls'[c].out.kind \notin {"TimeoutError", "CancelledError"})
         => calls'[c].out = Raised("RuntimeError", recv[c])]_vars

\* C6 amended: get_snapshot, put_snapshot, entities_replace and
\* entities_update, resumed with a response whose ok is false or absent, raise
\* RuntimeError carrying that response; ping and notify return False.
C6_RemoteFailure ==
    [][\A c \in Frames :
         (calls[c].pc = "resolved" /\ calls'[c].pc = "done"
          /\ recv[c].ok # "true"
          /\ calls'[c].out.kind \notin {"TimeoutError", "CancelledError"})
         => IF calls[c].op \in {"ping", "notify"}
            THEN calls'[c].out = Returned("False")
            ELSE calls'[c].out = Raised("RuntimeError", recv[c])]_vars

C6_Witness ==
    /\ \E c \in Calls :
          /\ calls[c].op = "put_snapshot"
          /\ calls[c].out.kind = "RuntimeError"
          /\ calls[c].out.res.ok = "absent"
    /\ \E c \in Calls :
          calls[c].op = "ping" /\ calls[c].out = Returned("False")

\* C7: every call in flight eventually ends, with a result, a RuntimeError, a
\* TimeoutError or a CancelledError.
C7_EveryCallCompletes ==
    \A c \in Calls :
        (calls[c].pc \in {"waiting", "resolved"})
        ~> (calls[c].pc = "done"
            /\ calls[c].out.kind \in {"result", "RuntimeError",
                                       "TimeoutError", "CancelledError"})

C7_Witness ==
    /\ \A c \in Calls : calls[c].pc = "done"
    /\ \E c \in Calls : calls[c].out = Returned("True")
    /\ \E c \in Calls :
          calls[c].op = "get_snapshot" /\ calls[c].out.kind = "TimeoutError"

\* C9: a ws_notify_fire that returns fires exactly one notify request, which
\* carries the entry's identity and the returned cid; it ends in that same
\* step and leaves the registered listeners as they were.
C9_NotifyFire ==
    [][\A c \in Frames :
         (Begins(c) /\ calls'[c].op = "notify_fire"
          /\ calls'[c].out.kind = "result")
         => /\ calls'[c].pc = "done"
            /\ calls'[c].out.cid # NoCid
            /\ bus' = bus (+) SetToBag({ReqEvent("notify",
                          entries[calls'[c].entry].id, calls'[c].out.cid,
                          "present")})
            /\ listeners' = listeners]_vars

C9_Witness ==
    \E a, b \in Calls :
        /\ calls[a].op = "notify_fire" /\ calls[a].out.kind = "result"
        /\ calls[b].pc = "waiting"
        /\ calls[a].out.cid = calls[b].cid
        /\ listeners = {b}

\* ------------------------------------------------------------- entry claims
\* C8 as claimed: the event the notify service fires for the companion app
\* carries the identity of the entry resolved from the call's device
\* reference.
C8_NotifyCarriesIdentity ==
    \A ev \in BagToSet(bus) :
        (ev.type = "quickbars.notify" /\ svc.entry2 # "none"
         /\ ev.cid = svc.cid)
        => (ev.id # NoId /\ ev.id = entries[svc.entry2].id)

\* C10 as claimed: while the tracker of entry e is started (setup running or
\* done), a _handle_change that resolves a service declaring e's identity at
\* a host or port other than the stored ones stores the resolved host and
\* port and creates a refresh task.
C10_DriftUpdatesAndRechecks ==
    [][\A e \in Entries :
         (/\ hc.state = "resolving" /\ hc.entry = e /\ hc'.state = "done"
          /\ setup[e] \in {"refreshing", "loaded"}
          /\ presence[e] = "watching"
          /\ hc.info.found /\ hc.info.id = entries[e].id
          /\ hc.info.host # "none" /\ hc.info.port # NoPort
          /\ (hc.info.host # entries[e].host
              \/ hc.info.port # entries[e].port))
         => /\ entries'[e].host = hc.info.host
            /\ entries'[e].port = hc.info.port
            /\ rechecks'[e] = rechecks[e] + 1]_vars

\* C11 as claimed: a _handle_change that resolves a service whose TXT id is
\* empty or is not the string the entry stores as its identity changes
\* neither the entries nor the refresh tasks created.
C11_DifferentIdIgnored ==
    [][(/\ hc.state = "resolving" /\ hc'.state = "done" /\ hc.info.found
        /\ (hc.info.id = NoId \/ hc.info.id # entries[hc.entry].id))
       => (entries' = entries /\ rechecks' = rechecks)]_vars

\* C11 amended: the TXT id and the stored identity are compared after
\* strip() and lower(); a TXT id that is empty after them, or that differs
\* from the stored identity after them, changes neither the entries nor the
\* refresh tasks created, whatever host and port were resolved.
C11_UnmatchedIdIgnored ==
    [][(/\ hc.state = "resolving" /\ hc'.state = "done" /\ hc.info.found
        /\ (lower(strip(hc.info.id)) = NoId
            \/ lower(strip(hc.info.id)) # lower(strip(entries[hc.entry].id))))
       => (entries' = entries /\ rechecks' = rechecks)]_vars

C11_Witness ==
    /\ hc.state = "done" /\ hc.info.found
    /\ hc.info.id = IdB /\ entries[hc.entry].id = IdA
    /\ hc.info.host = "h2" /\ hc.info.port = 2
    /\ entries[hc.entry].host = "h1" /\ entries[hc.entry].port = 1
    /\ setup[hc.entry] = "loaded"
    /\ rechecks[hc.entry] = 0

\* C13: a notification that is a removal or is of another service type
\* starts no lookup, and it, or a lookup that returns nothing, changes
\* neither the entries nor the refresh tasks created.
C13_DroppedNotifications ==
    [][/\ (budget'.notifs = budget.notifs + 1
           /\ (hc'.service_type # SERVICE_TYPE
               \/ hc'.state_change = "Removed"))
          => (/\ lookups' = lookups /\ hc'.state = "done"
              /\ entries' = entries /\ rechecks' = rechecks)
       /\ (hc.state = "resolving" /\ hc'.state = "done" /\ ~hc.info.found)
          => (entries' = entries /\ rechecks' = rechecks)]_vars

C13_Witness ==
    /\ budget.notifs = 2 /\ lookups = 1
    /\ hc.state = "done" /\ hc.state_change = "Removed"
    /\ hc.service_type = SERVICE_TYPE
    /\ setup[hc.entry] = "loaded"
    /\ entries[hc.entry].host = "h1" /\ entries[hc.entry].port = 1

\* C14 as claimed: a watching tracker holds an active discovery subscription,
\* and for a tracker whose last call was stop(), or that was never started, no
\* subscription it created is active.
C14_StopCancelsEverySubscription ==
    \A e \in Entries :
        /\ presence[e] = "watching" => browsers[e] >= 1
        /\ presence[e] \in {"stopped", "none"} => browsers[e] = 0

\* ------------------------------------------------------------- monitor claims
CycleBegins(e) ==
    calls[CoordCall(e)].pc = "idle" /\ calls'[CoordCall(e)].pc # "idle"
CycleEnds(e) ==
    calls[CoordCall(e)].pc = "done" /\ calls'[CoordCall(e)].pc = "idle"

C16_MonitorLevelFailure ==
    [][\A e \in Entries :
         (CycleEnds(e) /\ calls[CoordCall(e)].out.kind = "ValueError")
         => cycle'[e].kind \notin {"result", "UpdateFailed"}]_vars

\* C17 as claimed: a cycle cancelled with its ping in flight ends with
\* CancelledError and its listener unregistered; unloading the entry with the
\* ping in flight cancels it likewise; and a coordinator whose cycle was
\* cancelled begins no further cycle.
C17_CancelStopsMonitor ==
    [][\A e \in Entries :
         LET f == CoordCall(e) IN
         /\ (f \in InFlight /\ calls'[f].out.kind = "CancelledError")
            => f \notin listeners'
         /\ (CycleEnds(e) /\ calls[f].out.kind = "CancelledError")
            => cycle'[e].kind = "CancelledError"
         /\ (f \in InFlight /\ setup[e] = "loaded"
             /\ setup'[e] = "not_loaded")
            => (f \notin listeners' /\ calls'[f].out.kind = "CancelledError")
         /\ (cycle[e].kind = "CancelledError" /\ setup[e] = "loaded")
            => ~CycleBegins(e)]_vars

\* ------------------------------------------------------------- flow claims
EntryCreated == configured' # configured

\* C12: no step changes the id of an entry that exists: not a tracker
\* storing a resolved host and port, not a flow updating the entry of an
\* identity already configured.
C12_IdentityImmutable ==
    [][\A e \in configured : entries'[e].id = entries[e].id]_vars

\* An entry whose host and port were rewritten by its tracker, after a flow
\* that found its identity configured had rewritten them.
C12_Witness ==
    /\ flow.result = "abort" /\ flow.errors = "already_configured"
    /\ flow.step = "pair"
    /\ flow.host = "h1" /\ flow.qb_id = IdA
    /\ hc.state = "done" /\ hc.entry = "e1" /\ hc.info.id = IdA
    /\ entries["e1"] = [id |-> IdA, host |-> "h2", port |-> 2]

\* C18: every entry has a non-empty identity, and an entry is created only
\* by a flow that had requested a pairing code, with the id its last
\* confirm_pair returned as the entry's identity.
C18_EntryIdentityFromPairing ==
    /\ [](\A e \in configured : entries[e].id # NoId)
    /\ [][EntryCreated
          => /\ flow.pair_sid
             /\ flow'.qb_id # NoId
             /\ \A e \in configured' \ configured :
                   entries'[e].id = flow'.qb_id]_vars

\* An entry created in the token step of a flow begun by a discovery whose
\* TXT id is not the id confirm_pair returned.
C18_Witness ==
    /\ flow.result = "create_entry" /\ flow.step = "token"
    /\ flow.txt_id = <<"A">> /\ flow.qb_id = IdB
    /\ \E e \in configured : entries[e].id = IdB

\* C19: a confirm_pair that returns an identity not configured yet and no
\* has_token shows the token form and creates no entry; the entry of such a
\* flow is created by a token step whose set_credentials returned ok; the
\* entry of a flow whose confirm_pair returned has_token is created by the
\* pair step, with no set_credentials call made.
C19_CredentialsBeforeEntry ==
    [][/\ (/\ flow.step = "pair" /\ flow'.submits = flow.submits + 1
           /\ flow'.net = "ok" /\ flow'.qb_id # NoId /\ ~flow'.has_token
           /\ flow'.result # "abort")
          => (/\ flow'.step = "token" /\ flow'.result = "form"
              /\ configured' = configured)
       /\ (EntryCreated /\ ~flow'.has_token)
          => (/\ flow.step = "token" /\ flow'.creds_ok
              /\ flow'.creds_calls >= 1)
       /\ (EntryCreated /\ flow'.has_token)
          => (flow.step = "pair" /\ flow'.creds_calls = 0)]_vars

\* An entry created after one set_credentials that was refused or failed and
\* one that returned ok.
C19_Witness ==
    /\ flow.result = "create_entry" /\ ~flow.has_token
    /\ flow.creds_calls = 2 /\ flow.creds_ok

\* C20 as claimed: a step whose pairing call raised shows the form of that
\* same step, with an error.
C20_FailureReshowsSameStep ==
    [][(flow'.submits = flow.submits + 1 /\ flow'.net = "fail")
       => (/\ flow'.result = "form" /\ flow'.step = flow.step
           /\ flow'.errors # "none")]_vars

\* C21 as claimed: a pair step whose confirm_pair returned no id aborts the
\* flow: no entry is created and no form is left for the user to submit.
C21_MissingIdentityAborts ==
    [][(/\ flow.step = "pair" /\ flow'.submits = flow.submits + 1
        /\ flow'.net = "ok" /\ flow'.qb_id = NoId)
       => (/\ flow'.result = "abort"
           /\ configured' = configured)]_vars

\* ------------------------------------------- config_flow.py: options flow
MaxOptFlows == 1
MaxOptSubmits == 5
MaxRequested == 4
MaxChanged == 2

\* str.casefold() and str.upper(), on the letters the model's strings use.
casefold_char(ch) ==
    CASE ch = "A" -> "a" [] ch = "B" -> "b" [] ch = "Q" -> "q" [] OTHER -> ch
casefold(s) == [i \in 1..Len(s) |-> casefold_char(s[i])]
upper(p) ==
    CASE p = "left" -> "LEFT" [] p = "right" -> "RIGHT" [] p = "top" -> "TOP"
      [] p = "bottom" -> "BOTTOM" [] OTHER -> p

\* dict.get(key, default); `x or y` on strings and lists held as sequences
\* (None, "" and [] are all the empty sequence), and on the position strings.
get(d, key, default) == IF key \in DOMAIN d THEN d[key] ELSE default
or_else(x, y) == IF x = <<>> THEN y ELSE x
or_str(x, y) == IF x = "" THEN y ELSE x
Range(s) == {s[i] : i \in 1..Len(s)}

\* A quick bar as async_step_qb_pick creates it: the keys it does not set
\* (haTriggerAlias, the custom colours) are absent.
new_qb(name) ==
    [name |-> name, savedEntityIds |-> <<>>, showNameInOverlay |-> TRUE,
     showTimeOnQuickBar |-> TRUE, backgroundColor |-> "colorSurface",
     backgroundOpacity |-> 90, onStateColor |-> "colorPrimary",
     position |-> "RIGHT", useGridLayout |-> FALSE,
     autoCloseQuickBarDomains |-> <<>>, haTriggerAlias |-> <<>>,
     customBackgroundColor |-> <<>>, customOnStateColor |-> <<>>]

\* The snapshots the app answers get_snapshot with. Names are sequences of
\* characters; the letter Q stands for the word QuickBar. Entity x is not
\* saved and one entity record has no id.
EntityRecord(id, isSaved) ==
    [id |-> id, isSaved |-> isSaved, customName |-> <<>>,
     friendlyName |-> <<"n">>]
SnapshotEntities ==
    <<EntityRecord("a", TRUE), EntityRecord("b", TRUE),
      EntityRecord("c", TRUE), EntityRecord("x", FALSE),
      EntityRecord("", TRUE)>>
BarA ==
    [new_qb(<<"a">>) EXCEPT
        !.savedEntityIds = <<"a">>, !.showNameInOverlay = TRUE,
        !.haTriggerAlias = <<"t">>, !.autoCloseQuickBarDomains = <<"light">>,
        !.backgroundColor = "custom", !.customBackgroundColor = <<1, 2, 3>>,
        !.position = "left"]
BarB == new_qb(<<"B">>)
BarQ1 == new_qb(<<"q", " ", "1">>)
BarDup == new_qb(<<" ", "A">>)
Snapshot(quick_bars) ==
    [loaded |-> TRUE, entities |-> SnapshotEntities,
     quick_bars |-> quick_bars]
EmptyPayload == [loaded |-> TRUE, entities |-> <<>>, quick_bars |-> <<>>]
Snapshots ==
    {Snapshot(<<BarA, BarB>>), Snapshot(<<BarA, BarQ1>>),
     Snapshot(<<BarA, BarDup>>), Snapshot(<<BarB>>), EmptyPayload}
\* What ws_get_snapshot comes back with: a snapshot, or NoSnapshot when it
\* raised (timeout, or a response without ok).
Fetches == Snapshots \cup {NoSnapshot}
PingOutcomes == {"ok", "not_ok"}
PushOutcomes == {"ok", "error"}

\* The fields of the qb_manage form, and a submission of it.
BaseInput ==
    [quickbar_name |-> <<"a">>, saved_entities |-> <<"a">>,
     show_name_on_overlay |-> TRUE, show_time_on_quickbar |-> TRUE,
     ha_trigger_alias |-> <<"t">>, auto_close_domains |-> <<"light">>,
     position |-> "LEFT", use_grid_layout |-> FALSE,
     background_opacity |-> 90, use_custom_bg |-> TRUE,
     bg_rgb |-> <<1, 2, 3>>, use_custom_on_state |-> FALSE,
     on_rgb |-> <<255, 204, 0>>]
OtherInput ==
    [quickbar_name |-> <<"b">>, saved_entities |-> <<"b", "a">>,
     show_name_on_overlay |-> FALSE, show_time_on_quickbar |-> FALSE,
     ha_trigger_alias |-> <<>>, auto_close_domains |-> <<"scene">>,
     position |-> "TOP", use_grid_layout |-> TRUE,
     background_opacity |-> 50, use_custom_bg |-> FALSE,
     bg_rgb |-> <<9, 9, 9>>, use_custom_on_state |-> TRUE,
     on_rgb |-> <<7, 7, 7>>]
FormFields == DOMAIN BaseInput
\* Submissions that change the name only, at most MaxChanged fields, or the
\* selected entities only.
NameInputs ==
    {[BaseInput EXCEPT !.quickbar_name = n] :
        n \in {<<>>, <<"a">>, <<"A", " ">>, <<"b">>, <<" ", "b">>,
               <<"Q", " ", "1">>, <<"c">>}}
RECURSIVE Changed(_)
Changed(n) ==
    IF n = 0 THEN {BaseInput}
    ELSE LET less == Changed(n - 1)
         IN less \cup {[ui EXCEPT ![f] = OtherInput[f]] :
                          ui \in less, f \in FormFields}
FieldInputs == Changed(MaxChanged)
RECURSIVE SeqsUpTo(_, _)
SeqsUpTo(S, n) ==
    IF n = 0 THEN {<<>>}
    ELSE LET less == SeqsUpTo(S, n - 1)
         IN less \cup {Append(s, x) : s \in less, x \in S}
EntityInputs ==
    {[BaseInput EXCEPT !.saved_entities = req] :
        req \in SeqsUpTo({"a", "b", "x"}, MaxRequested)}

\* async_show_form and async_create_entry of the options flow; a request a
\* bridge call of the flow fires on EVENT_REQ.
options_show_form(o, step_id, errkey, errors, defaults) ==
    [o EXCEPT !.step = step_id, !.result = "form", !.errkey = errkey,
              !.errors = errors, !.defaults = defaults]
options_create_entry(o) ==
    [o EXCEPT !.result = "create_entry", !.errkey = "none",
              !.errors = "none", !.defaults = <<>>]
async_fire(o, action, payload) ==
    [o EXCEPT !.published =
        Append(@, [action |-> action, payload |-> payload])]
tv_unreachable(o, step_id, defaults) ==
    options_show_form(o, step_id, "base", "tv_unreachable", defaults)

\* self._snapshot = await ws_get_snapshot(...): the request is fired unless
\* _entry_id raised, and the snapshot is stored when one came back.
fetch_failed(o, snap) == entry_id_raises(o.entry) \/ ~snap.loaded
fetch(o, snap) ==
    IF entry_id_raises(o.entry) THEN o
    ELSE LET o1 == async_fire(o, "get_snapshot", <<>>)
         IN IF snap.loaded
            THEN [o1 EXCEPT !.snapshot = snap, !.fetched = snap]
            ELSE o1

\* async_step_menu(None)
async_step_menu_form(o) == options_show_form(o, "menu", "none", "none", <<>>)

\* async_step_init: ws_ping, then ws_get_snapshot, then the menu.
async_step_init(o, ping, snap) ==
    IF entry_id_raises(o.entry) THEN tv_unreachable(o, "init", <<>>)
    ELSE LET o1 == async_fire(o, "ping", <<>>)
         IN IF ping # "ok" THEN tv_unreachable(o1, "init", <<>>)
            ELSE IF fetch_failed(o1, snap)
            THEN tv_unreachable(fetch(o1, snap), "init", <<>>)
            ELSE async_step_menu_form(fetch(o1, snap))

\* The ids of the snapshot's entities, and its saved entities.
with_id(entities) == SelectSeq(entities, LAMBDA e : e.id # "")
saved_with_id(entities) ==
    SelectSeq(entities, LAMBDA e : e.isSaved /\ e.id # "")
ids_of(entities) == [i \in 1..Len(entities) |-> entities[i].id]

\* async_step_expose(None), and async_step_expose(user_input):
\* ws_entities_replace with the selected ids and their display names.
async_step_expose_form(o) ==
    options_show_form(o, "expose", "none", "none",
        [saved |-> ids_of(with_id(o.snapshot.entities))])
entities_replace_payload(selected) ==
    IF selected # <<>>
    THEN [entity_ids |-> selected, names |-> Range(selected)]
    ELSE [entity_ids |-> selected]
async_step_expose(o, selected, out) ==
    IF entry_id_raises(o.entry)
    THEN tv_unreachable(o, "expose", [saved |-> selected])
    ELSE LET o1 == async_fire(o, "entities_replace",
                              entities_replace_payload(selected))
         IN IF out = "ok" THEN options_create_entry(o1)
            ELSE tv_unreachable(o1, "expose", [saved |-> selected])

\* async_step_manage_saved_pick(None): the snapshot is fetched again, then
\* the form with the saved entities.
manage_saved_pick_blocked(o, snap) ==
    fetch_failed(o, snap) \/ saved_with_id(snap.entities) = <<>>
async_step_manage_saved_pick_form(o, snap) ==
    LET o1 == fetch(o, snap)
        ents == saved_with_id(o1.snapshot.entities)
        default_id == IF o.entity_id \in Range(ids_of(ents))
                      THEN o.entity_id ELSE ents[1].id
    IN IF fetch_failed(o, snap)
       THEN tv_unreachable(o1, "manage_saved_pick", <<>>)
       ELSE IF ents = <<>>
       THEN options_show_form(o1, "manage_saved_pick", "none", "none", <<>>)
       ELSE options_show_form(o1, "manage_saved_pick", "none", "none",
                              [entity |-> default_id])

\* async_step_manage_saved(None): the form of the picked entity, or back to
\* the pick step when there is none.
manage_saved_bounces(o) ==
    \/ o.entity_id = ""
    \/ o.entity_id \notin Range(ids_of(saved_with_id(o.snapshot.entities)))
by_id(o) ==
    LET ents == saved_with_id(o.snapshot.entities)
    IN ents[CHOOSE i \in 1..Len(ents) : ents[i].id = o.entity_id]
async_step_manage_saved_form(o, snap2) ==
    IF manage_saved_bounces(o)
    THEN async_step_manage_saved_pick_form(o, snap2)
    ELSE LET entity == by_id(o)
             cur_name == or_else(entity.customName, entity.friendlyName)
         IN options_show_form(o, "manage_saved", "none", "none",
                              [display_name |-> cur_name])

\* async_step_manage_saved_pick(user_input)
async_step_manage_saved_pick(o, entity, snap, snap2) ==
    IF manage_saved_pick_blocked(o, snap)
    THEN async_step_manage_saved_pick_form(o, snap)
    ELSE async_step_manage_saved_form(
             [fetch(o, snap) EXCEPT !.entity_id = entity], snap2)

\* async_step_manage_saved(user_input): ws_entities_update of the one name.
entities_update_payload(entity_id, new_name) ==
    [entities |-> <<[id |-> entity_id, customName |-> new_name]>>]
async_step_manage_saved(o, new_name, out, snap2) ==
    IF manage_saved_bounces(o)
    THEN async_step_manage_saved_pick_form(o, snap2)
    ELSE IF entry_id_raises(o.entry)
    THEN tv_unreachable(o, "manage_saved", [display_name |-> new_name])
    ELSE LET o1 == async_fire(o, "entities_update",
                              entities_update_payload(o.entity_id, new_name))
         IN IF out = "ok" THEN options_create_entry(o1)
            ELSE tv_unreachable(o1, "manage_saved",
                                [display_name |-> new_name])

\* async_step_qb_pick(None): the snapshot is fetched again, then the form
\* with the quick bars. An index is a position in quick_bars counted from 1;
\* 0 is _qb_index = None.
qb_pick_blocked(o, snap) == fetch_failed(o, snap) \/ snap.quick_bars = <<>>
default_idx(o, qb_list) ==
    IF o.qb_index >= 1 /\ o.qb_index <= Len(qb_list) THEN o.qb_index ELSE 1
async_step_qb_pick_form(o, snap) ==
    LET o1 == fetch(o, snap)
        qb_list == o1.snapshot.quick_bars
    IN IF fetch_failed(o, snap) THEN tv_unreachable(o1, "qb_pick", <<>>)
       ELSE IF qb_list = <<>>
       THEN options_show_form(o1, "qb_pick", "none", "none", <<>>)
       ELSE options_show_form(o1, "qb_pick", "none", "none",
                              [quickbar |-> default_idx(o, qb_list)])

\* The values async_step_qb_manage reads from the quick bar it edits.
cur_name(qb) == qb.name
cur_saved(qb) == qb.savedEntityIds
cur_show_name(qb) == qb.showNameInOverlay
cur_show_time(qb) == qb.showTimeOnQuickBar
cur_alias(qb) == qb.haTriggerAlias
cur_domains(qb) == qb.autoCloseQuickBarDomains
cur_bg_mode(qb) == or_str(qb.backgroundColor, "colorSurface")
cur_on_mode(qb) == or_str(qb.onStateColor, "colorPrimary")
cur_bg_opacity(qb) == qb.backgroundOpacity
cur_bg_rgb(qb) == or_else(qb.customBackgroundColor, <<24, 24, 24>>)
cur_on_rgb(qb) == or_else(qb.customOnStateColor, <<255, 204, 0>>)
cur_pos(qb) == upper(or_str(qb.position, "RIGHT"))
cur_use_grid(qb) == qb.useGridLayout

\* async_step_qb_manage(None): the form of the picked quick bar, or back to
\* the pick step when there is none.
qb_manage_bounces(o) ==
    \/ o.snapshot.quick_bars = <<>>
    \/ o.qb_index < 1
    \/ o.qb_index > Len(o.snapshot.quick_bars)
qb_manage_defaults(qb) ==
    [quickbar_name |-> cur_name(qb), saved_entities |-> cur_saved(qb),
     show_name_on_overlay |-> cur_show_name(qb),
     show_time_on_quickbar |-> cur_show_time(qb),
     ha_trigger_alias |-> cur_alias(qb),
     auto_close_domains |-> cur_domains(qb),
     position |-> cur_pos(qb), use_grid_layout |-> cur_use_grid(qb),
     background_opacity |-> cur_bg_opacity(qb),
     use_custom_bg |-> (cur_bg_mode(qb) = "custom"),
     bg_rgb |-> cur_bg_rgb(qb),
     use_custom_on_state |-> (cur_on_mode(qb) = "custom"),
     on_rgb |-> cur_on_rgb(qb)]
async_step_qb_manage_form(o, snap2) ==
    IF qb_manage_bounces(o) THEN async_step_qb_pick_form(o, snap2)
    ELSE options_show_form(o, "qb_manage", "none", "none",
             qb_manage_defaults(o.snapshot.quick_bars[o.qb_index]))

\* The name of a new quick bar: "QuickBar <suffix>" with the first suffix
\* whose casefolded name no quick bar has.
str(n) == <<<<"0", "1", "2", "3", "4", "5", "6", "7", "8", "9">>[n + 1]>>
numbered(base, suffix) == base \o <<" ">> \o str(suffix)
existing_names(qb_list) ==
    {casefold(strip(qb_list[i].name)) : i \in 1..Len(qb_list)}
RECURSIVE free_suffix(_, _, _)
free_suffix(base, names, suffix) ==
    IF casefold(numbered(base, suffix)) \in names
    THEN free_suffix(base, names, suffix + 1)
    ELSE suffix

\* async_step_qb_pick(user_input): a new quick bar is appended to the
\* working snapshot, or an existing one is picked; then the editor's form.
\* choice 0 is the choice "new".
async_step_qb_pick(o, choice, snap, snap2) ==
    IF qb_pick_blocked(o, snap) THEN async_step_qb_pick_form(o, snap)
    ELSE LET o1 == fetch(o, snap)
             qb_list == o1.snapshot.quick_bars
             base == <<"Q">>
             suffix == free_suffix(base, existing_names(qb_list), 1)
             added == Append(qb_list, new_qb(numbered(base, suffix)))
         IN IF choice = 0
            THEN async_step_qb_manage_form(
                     [o1 EXCEPT !.snapshot.quick_bars = added,
                                !.qb_index = Len(added)], snap2)
            ELSE async_step_qb_manage_form(
                     [o1 EXCEPT !.qb_index = choice], snap2)

\* The requested ids that are saved, each once, in the order requested.
unseen_always(eid, seen) == TRUE
unseen(eid, seen) == eid \notin seen
RECURSIVE normalize(_, _, _, _)
normalize(requested, saved_ids, seen, normalized) ==
    IF requested = <<>> THEN normalized
    ELSE LET eid == Head(requested)
         IN IF eid \in Range(saved_ids) /\ unseen(eid, seen)
            THEN normalize(Tail(requested), saved_ids, seen \cup {eid},
                           Append(normalized, eid))
            ELSE normalize(Tail(requested), saved_ids, seen, normalized)
requested_ids(user_input, qb) ==
    or_else(user_input.saved_entities, cur_saved(qb))
normalized_ids(o, user_input, qb) ==
    normalize(requested_ids(user_input, qb),
              ids_of(saved_with_id(o.snapshot.entities)), {}, <<>>)

\* The name submitted, and the names it must differ from.
submitted_name(user_input, qb) ==
    strip(get(user_input, "quickbar_name", cur_name(qb)))
names_ci_raw(qb_list, qb_index) ==
    {qb_list[i].name : i \in (1..Len(qb_list)) \ {qb_index}}
names_ci(qb_list, qb_index) ==
    {casefold(strip(qb_list[i].name)) : i \in (1..Len(qb_list)) \ {qb_index}}
name_taken(o, user_input) ==
    LET new_name == submitted_name(user_input,
                                   o.snapshot.quick_bars[o.qb_index])
    IN /\ new_name # <<>>
       /\ casefold(new_name) \in names_ci(o.snapshot.quick_bars, o.qb_index)

\* The form shown again after a name that is taken.
name_taken_key == "base"
name_taken_defaults(o, user_input, qb) ==
    [quickbar_name |-> submitted_name(user_input, qb),
     saved_entities |-> normalized_ids(o, user_input, qb),
     show_name_on_overlay |->
         get(user_input, "show_name_on_quickbar", cur_show_name(qb)),
     show_time_on_quickbar |->
         get(user_input, "show_time_on_quickbar", cur_show_time(qb)),
     ha_trigger_alias |-> get(user_input, "ha_trigger_alias", cur_alias(qb)),
     auto_close_domains |->
         or_else(user_input.auto_close_domains, cur_domains(qb)),
     position |->
         upper(or_str(get(user_input, "position", cur_pos(qb)), "RIGHT")),
     use_grid_layout |-> get(user_input, "use_grid_layout", cur_use_grid(qb)),
     background_opacity |->
         get(user_input, "background_opacity", cur_bg_opacity(qb)),
     use_custom_bg |->
         get(user_input, "use_custom_bg", cur_bg_mode(qb) = "custom"),
     bg_rgb |-> or_else(user_input.bg_rgb, cur_bg_rgb(qb)),
     use_custom_on_state |->
         get(user_input, "use_custom_on_state", cur_on_mode(qb) = "custom"),
     on_rgb |-> or_else(user_input.on_rgb, cur_on_rgb(qb))]

\* The edits applied to the quick bar once its name is accepted.
apply_edits(o, user_input, qb) ==
    LET pos == upper(or_str(get(user_input, "position", cur_pos(qb)),
                            "RIGHT"))
        req_grid == get(user_input, "use_grid_layout", cur_use_grid(qb))
        use_bg == get(user_input, "use_custom_bg", cur_bg_mode(qb) = "custom")
        use_on == get(user_input, "use_custom_on_state",
                      cur_on_mode(qb) = "custom")
    IN [name |-> or_else(submitted_name(user_input, qb), cur_name(qb)),
        savedEntityIds |-> normalized_ids(o, user_input, qb),
        showNameInOverlay |->
            get(user_input, "show_name_on_overlay", cur_show_name(qb)),
        showTimeOnQuickBar |->
            get(user_input, "show_time_on_quickbar", cur_show_time(qb)),
        haTriggerAlias |->
            get(user_input, "ha_trigger_alias", cur_alias(qb)),
        autoCloseQuickBarDomains |->
            or_else(user_input.auto_close_domains, cur_domains(qb)),
        position |-> pos,
        useGridLayout |-> (req_grid /\ pos \in {"LEFT", "RIGHT"}),
        backgroundOpacity |->
            get(user_input, "background_opacity", cur_bg_opacity(qb)),
        backgroundColor |->
            IF use_bg THEN "custom"
            ELSE IF cur_bg_mode(qb) # "custom" THEN cur_bg_mode(qb)
            ELSE "colorSurface",
        customBackgroundColor |->
            IF use_bg THEN or_else(user_input.bg_rgb, cur_bg_rgb(qb))
            ELSE <<>>,
        onStateColor |->
            IF use_on THEN "custom"
            ELSE IF cur_on_mode(qb) # "custom" THEN cur_on_mode(qb)
            ELSE "colorPrimary",
        customOnStateColor |->
            IF use_on THEN or_else(user_input.on_rgb, cur_on_rgb(qb))
            ELSE <<>>]

\* The form shown again after a push that failed: from the edited quick bar
\* `edited`, and the values `qb` held before the edits.
push_failed_defaults(edited, qb) ==
    [quickbar_name |-> or_else(edited.name, cur_name(qb)),
     saved_entities |-> or_else(edited.savedEntityIds, cur_saved(qb)),
     show_name_on_overlay |-> edited.showNameInOverlay,
     show_time_on_quickbar |-> edited.showTimeOnQuickBar,
     ha_trigger_alias |-> or_else(edited.haTriggerAlias, cur_alias(qb)),
     auto_close_domains |->
         or_else(edited.autoCloseQuickBarDomains, cur_domains(qb)),
     position |-> edited.position,
     use_grid_layout |-> edited.useGridLayout,
     background_opacity |-> edited.backgroundOpacity,
     use_custom_bg |-> (edited.backgroundColor = "custom"),
     bg_rgb |-> or_else(edited.customBackgroundColor, cur_bg_rgb(qb)),
     use_custom_on_state |-> (edited.onStateColor = "custom"),
     on_rgb |-> or_else(edited.customOnStateColor, cur_on_rgb(qb))]

\* The payload of the editor's ws_put_snapshot.
put_snapshot_payload_whole(snapshot) ==
    [quick_bars |-> snapshot.quick_bars, entities |-> snapshot.entities]
put_snapshot_payload(snapshot) == [quick_bars |-> snapshot.quick_bars]

\* async_step_qb_manage(user_input): the name check, the edits, and
\* ws_put_snapshot of the quick bars.
async_step_qb_manage(o, user_input, out, snap2) ==
    IF qb_manage_bounces(o) THEN async_step_qb_pick_form(o, snap2)
    ELSE LET qb == o.snapshot.quick_bars[o.qb_index]
             o1 == [o EXCEPT !.user_input = user_input]
             edited == apply_edits(o, user_input, qb)
             o2 == [o1 EXCEPT !.snapshot.quick_bars[o.qb_index] = edited]
             o3 == async_fire(o2, "put_snapshot",
                              put_snapshot_payload(o2.snapshot))
         IN IF name_taken(o, user_input)
            THEN options_show_form(o1, "qb_manage", name_taken_key,
                     "name_taken", name_taken_defaults(o, user_input, qb))
            ELSE IF entry_id_raises(o.entry)
            THEN tv_unreachable(o2, "qb_manage",
                                push_failed_defaults(edited, qb))
            ELSE IF out = "ok" THEN options_create_entry(o3)
            ELSE tv_unreachable(o3, "qb_manage",
                                push_failed_defaults(edited, qb))

\* ------------------------------------------------- the options flow's steps
optionsFrame == <<configured, entries, calls, listeners, bus, recv, setup,
                  hass_data, devices, presence, browsers, hc, lookups,
                  rechecks, raised, notify_svc, action_listeners, svc,
                  budget, cycle, flow, cam>>
OptionsIdle == opt.result \in {"none", "create_entry"}
OptionsShown(step_id) ==
    /\ opt.step = step_id
    /\ opt.result = "form"
    /\ opt.submits < MaxOptSubmits
Submitted == [opt EXCEPT !.submits = @ + 1]

\* The user opens the options of entry e, or submits the form of step init.
step_init(e, ping, snap) ==
    /\ \/ /\ OptionsIdle
          /\ opt.flows < MaxOptFlows
          /\ opt' = async_step_init(
                        [NoOptions EXCEPT !.entry = e,
                                          !.flows = opt.flows + 1,
                                          !.submits = 1], ping, snap)
       \/ /\ OptionsShown("init")
          /\ e = opt.entry
          /\ opt' = async_step_init(Submitted, ping, snap)
    /\ UNCHANGED optionsFrame

\* The user picks an action of the menu.
step_menu(action, snap) ==
    /\ OptionsShown("menu")
    /\ opt' = CASE action = "export" -> async_step_expose_form(Submitted)
                [] action = "manage_saved" ->
                       async_step_manage_saved_pick_form(Submitted, snap)
                [] action = "manage_qb" ->
                       async_step_qb_pick_form(Submitted, snap)
    /\ UNCHANGED optionsFrame

step_expose(selected, out) ==
    /\ OptionsShown("expose")
    /\ opt' = async_step_expose(Submitted, selected, out)
    /\ UNCHANGED optionsFrame

\* The form of a pick step has no field when it reports an error or an
\* empty list; the submission then picks nothing.
step_manage_saved_pick(entity, snap, snap2) ==
    /\ OptionsShown("manage_saved_pick")
    /\ IF DOMAIN opt.defaults = {} THEN entity = ""
       ELSE entity \in Range(ids_of(saved_with_id(opt.snapshot.entities)))
    /\ opt' = async_step_manage_saved_pick(Submitted, entity, snap, snap2)
    /\ UNCHANGED optionsFrame

step_manage_saved(new_name, out, snap2) ==
    /\ OptionsShown("manage_saved")
    /\ ~manage_saved_bounces(opt) => snap2 = NoSnapshot
    /\ opt' = async_step_manage_saved(Submitted, new_name, out, snap2)
    /\ UNCHANGED optionsFrame

step_qb_pick(choice, snap, snap2) ==
    /\ OptionsShown("qb_pick")
    /\ IF DOMAIN opt.defaults = {}
       THEN choice = default_idx(opt, snap.quick_bars)
       ELSE choice \in 0..Len(opt.snapshot.quick_bars)
    /\ opt' = async_step_qb_pick(Submitted, choice, snap, snap2)
    /\ UNCHANGED optionsFrame

\* snap2 is what the get_snapshot of a step that falls back to its pick step
\* comes back with; a step that does not fall back makes no such call.
step_qb_manage(user_input, out, snap2) ==
    /\ OptionsShown("qb_manage")
    /\ ~qb_manage_bounces(opt) => snap2 = NoSnapshot
    /\ opt' = async_step_qb_manage(Submitted, user_input, out, snap2)
    /\ UNCHANGED optionsFrame

\* The options flow of the entries, with submissions of the editor drawn
\* from `inputs`.
OptionsNext(inputs) ==
    \/ \E e \in configured, ping \in PingOutcomes, snap \in Fetches :
          step_init(e, ping, snap)
    \/ \E action \in {"export", "manage_saved", "manage_qb"},
          snap \in Fetches : step_menu(action, snap)
    \/ \E selected \in {<<>>, <<"a">>, <<"b", "a">>}, out \in PushOutcomes :
          step_expose(selected, out)
    \/ \E entity \in {"", "a", "b", "c"}, snap \in Fetches,
          snap2 \in Fetches : step_manage_saved_pick(entity, snap, snap2)
    \/ \E new_name \in {<<"n">>, <<"m">>}, out \in PushOutcomes,
          snap2 \in Fetches : step_manage_saved(new_name, out, snap2)
    \/ \E choice \in 0..2, snap \in Fetches, snap2 \in Fetches :
          step_qb_pick(choice, snap, snap2)
    \/ \E user_input \in inputs, out \in PushOutcomes, snap2 \in Fetches :
          step_qb_manage(user_input, out, snap2)

OptionsNames == OptionsNext(NameInputs)
OptionsFields == OptionsNext(FieldInputs)
OptionsEntities == OptionsNext(EntityInputs)
OptionsSpec == Init /\ [][OptionsNames]_vars
EditSpec == Init /\ [][OptionsFields]_vars
SelectionSpec == Init /\ [][OptionsEntities]_vars

\* ---------------------------------------------------------- options claims
\* A submission of the editor's form, and the name comparison of sibling
\* quick bars: trimmed and casefolded.
EditorSubmits ==
    /\ opt.step = "qb_manage" /\ opt.result = "form"
    /\ opt'.submits = opt.submits + 1
name_key(name) == casefold(strip(name))
SiblingHas(name) ==
    \E i \in (1..Len(opt.snapshot.quick_bars)) \ {opt.qb_index} :
        name_key(opt.snapshot.quick_bars[i].name) = name_key(name)

\* C22 as claimed: a submitted name that equals, trimmed and casefolded, the
\* name of a sibling quick bar shows the form again with an error on the
\* field quickbar_name and publishes no request; a name no sibling has, the
\* edited bar's own name included, is not reported as taken.
C22_NameConflictNamesField ==
    [][EditorSubmits
       => /\ SiblingHas(opt'.user_input.quickbar_name)
             => (/\ opt'.result = "form" /\ opt'.step = "qb_manage"
                 /\ opt'.errkey = "quickbar_name"
                 /\ opt'.published = opt.published)
          /\ ~SiblingHas(opt'.user_input.quickbar_name)
             => opt'.errors # "name_taken"]_vars

\* C23 as claimed: the form shown again after a submission that was refused
\* for its name, or whose push failed, has as the default of every field the
\* value the user submitted for it.
C23_RejectedFormKeepsInput ==
    [][(/\ EditorSubmits
        /\ opt'.result = "form" /\ opt'.step = "qb_manage"
        /\ opt'.errors \in {"name_taken", "tv_unreachable"})
       => \A field \in FormFields :
             opt'.defaults[field] = opt'.user_input[field]]_vars

\* Quick-bar names that are pairwise distinct once trimmed and casefolded,
\* and none of them empty.
DistinctNames(bars) ==
    \A i, j \in 1..Len(bars) :
        i # j => name_key(bars[i].name) # name_key(bars[j].name)
NonEmptyNames(bars) == \A i \in 1..Len(bars) : bars[i].name # <<>>

\* C24: when the names of the snapshot the session fetched are non-empty and
\* pairwise distinct (trimmed, casefolded), so are the names of every
\* quick_bars list the session pushed with put_snapshot: after a new quick
\* bar, after a rename, after a rename that follows a failed push.
C24_PushedNamesDistinct ==
    \A k \in 1..Len(opt.published) :
        (/\ opt.published[k].action = "put_snapshot"
         /\ NonEmptyNames(opt.fetched.quick_bars)
         /\ DistinctNames(opt.fetched.quick_bars))
        => DistinctNames(opt.published[k].payload.quick_bars)

\* A new quick bar pushed under its generated name "QuickBar 2" (a bar
\* "quickbar 1" exists), and, that push having failed, pushed again renamed.
C24_Witness ==
    /\ opt.result = "create_entry"
    /\ opt.fetched.quick_bars = <<BarA, BarQ1>>
    /\ Len(opt.published) >= 2
    /\ LET last == opt.published[Len(opt.published)]
           before == opt.published[Len(opt.published) - 1]
       IN /\ before.action = "put_snapshot"
          /\ Len(before.payload.quick_bars) = 3
          /\ before.payload.quick_bars[3].name = <<"Q", " ", "2">>
          /\ last.action = "put_snapshot"
          /\ last.payload.quick_bars[3].name = <<"b">>

\* The ids of `requested` that are in `saved`, each once, in the order of
\* their first occurrence in `requested`.
FirstIndex(s, x) ==
    CHOOSE i \in 1..Len(s) : s[i] = x /\ \A k \in 1..(i - 1) : s[k] # x
IsFirstOccurrences(result, requested, saved) ==
    /\ Range(result) = Range(requested) \cap saved
    /\ \A i, j \in 1..Len(result) : i # j => result[i] # result[j]
    /\ \A i, j \in 1..Len(result) :
          i < j => FirstIndex(requested, result[i])
                   < FirstIndex(requested, result[j])
SavedIds(snapshot) ==
    {snapshot.entities[i].id :
        i \in {k \in 1..Len(snapshot.entities) :
                  /\ snapshot.entities[k].isSaved
                  /\ snapshot.entities[k].id # ""}}

\* C25: the savedEntityIds the editor stores in the quick bar it edits, and
\* pushes, are the requested ids that are saved, each once, in the order of
\* their first occurrence: duplicate-free and a subset of the saved ids. The
\* requested list is the submitted selection, or the stored one when the
\* submission selects nothing.
C25_SelectionNormalized ==
    [][(EditorSubmits /\ opt'.errors # "name_taken")
       => LET qb == opt.snapshot.quick_bars[opt.qb_index]
              stored == opt'.snapshot.quick_bars[opt.qb_index].savedEntityIds
              requested == IF opt'.user_input.saved_entities # <<>>
                           THEN opt'.user_input.saved_entities
                           ELSE qb.savedEntityIds
          IN /\ IsFirstOccurrences(stored, requested, SavedIds(opt.snapshot))
             /\ Range(stored) \subseteq SavedIds(opt.snapshot)
             /\ Cardinality(Range(stored)) = Len(stored)
             /\ \A k \in (Len(opt.published) + 1)..Len(opt'.published) :
                   opt'.published[k].payload.quick_bars[opt.qb_index]
                       .savedEntityIds = stored]_vars

\* The selection b, a, b, x pushed as b, a.
C25_Witness ==
    /\ opt.result = "create_entry"
    /\ Len(opt.published) >= 1
    /\ opt.published[Len(opt.published)].action = "put_snapshot"
    /\ opt.user_input.saved_entities = <<"b", "a", "b", "x">>
    /\ opt.published[Len(opt.published)].payload.quick_bars[opt.qb_index]
          .savedEntityIds = <<"b", "a">>

\* The requests that change the app's configuration.
Mutating == {"entities_replace", "entities_update", "put_snapshot"}

\* C26: the payload of a put_snapshot the options flow publishes holds the
\* key quick_bars and no other; the payloads of its entities_replace and
\* entities_update hold no quick_bars; and a step publishes such a request
\* only in a session that had received a snapshot before the step.
C26_PushesOnlyWhatItChanged ==
    /\ [](\A k \in 1..Len(opt.published) :
            LET req == opt.published[k]
            IN /\ req.action = "put_snapshot"
                  => DOMAIN req.payload = {"quick_bars"}
               /\ req.action \in {"entities_replace", "entities_update"}
                  => "quick_bars" \notin DOMAIN req.payload)
    /\ [][\A k \in (Len(opt.published) + 1)..Len(opt'.published) :
            opt'.published[k].action \in Mutating
            => (opt.fetched.loaded /\ opt'.flows = opt.flows)]_vars

\* A session that pinged, fetched a snapshot with entities in its init step
\* and in its pick step, and pushed the quick bars.
C26_Witness ==
    /\ opt.result = "create_entry"
    /\ opt.snapshot.entities # <<>>
    /\ Len(opt.published) = 5
    /\ opt.published[1].action = "ping"
    /\ \A k \in 2..4 : opt.published[k].action = "get_snapshot"
    /\ opt.published[5].action = "put_snapshot"

\* --------------------------------------------- the color of a notification

\* The service quickbars.notify called with every color, for one configured
\* entry and no device reference.
ColorNext ==
    \/ LifeNext
    \/ \E col_in \in Colors : _svc_notify("none", NoCid, col_in)

ColorSpec == PresenceInit /\ [][ColorNext]_vars

\* A color of three numeric channels, as a list or as a mapping with the keys
\* r, g and b; and a string with no surrounding whitespace.
IsNumeric(rgb) == rgb # <<>> /\ \A i \in 1..Len(rgb) : rgb[i] \in Numbers
IsPreformatted(col_in) ==
    col_in.shape = "str" /\ col_in.text # <<>>
    /\ strip(col_in.text) = col_in.text
Clamped(x) == IF x.val < 0 THEN 0 ELSE IF x.val > 255 THEN 255 ELSE x.val
HexOf(n) ==
    LET digits == <<"0", "1", "2", "3", "4", "5", "6", "7", "8", "9", "a",
                    "b", "c", "d", "e", "f">>
    IN <<digits[(n \div 16) + 1], digits[(n % 16) + 1]>>

\* C27 as claimed: the color of a notification is never the cause of an
\* exception; three numeric channels (a list, or a mapping with r, g, b) give
\* "#rrggbb" in lowercase hex with each channel clamped to 0..255; a
\* pre-formatted string is passed on unchanged; and every other shape gives
\* a notification with no color.
C27_ColorNormalized ==
    (svc.called /\ svc.entry2 # "none") =>
       LET rgb == rgb_of(svc.col_in)
       IN /\ svc.error = "none"
          /\ IsNumeric(rgb)
             => svc.color = <<"#">> \o HexOf(Clamped(rgb[1]))
                            \o HexOf(Clamped(rgb[2])) \o HexOf(Clamped(rgb[3]))
          /\ IsPreformatted(svc.col_in) => svc.color = svc.col_in.text
          /\ (svc.error = "none" /\ ~IsNumeric(rgb)
              /\ ~(svc.col_in.shape = "str" /\ strip(svc.col_in.text) # <<>>))
             => svc.color = <<>>

\* ------------------------------------------------ the service camera_toggle

MaxCamCalls == 1

POS_CHOICES == {"top_left", "top_right", "bottom_left", "bottom_right"}

\* The call data of camera_toggle: each key given or not. camera_entity,
\* size and size_px are never given.
AutoHides == {-1, 0, 1, 3, 4, 5, 6, 30, 299, 300, 301}
Given(key, values) == {<<>>} \cup {key :> v : v \in values}
CameraCalls ==
    {a @@ p @@ h @@ t :
        a \in Given("camera_alias", {"cam"}),
        p \in Given("position", {"top_left", "middle"}),
        h \in Given("auto_hide", AutoHides),
        t \in Given("show_title", {FALSE})}

\* CAMERA_SCHEMA: the call data with its defaults, or "Invalid" for a
\* position that is no choice and an auto_hide outside 0..300.
CAMERA_SCHEMA_invalid(call) ==
    \/ "position" \in DOMAIN call /\ call["position"] \notin POS_CHOICES
    \/ "auto_hide" \in DOMAIN call
       /\ (call["auto_hide"] < 0 \/ call["auto_hide"] > 300)
CAMERA_SCHEMA(call) == call @@ ("auto_hide" :> 30) @@ ("show_title" :> TRUE)

\* handle_camera of async_setup_entry: the data of the event it fires.
clamp_auto_hide(auto_hide) ==
    IF auto_hide # 0 /\ auto_hide < 5 THEN 5 ELSE auto_hide
handle_camera(call) ==
    (IF get(call, "camera_alias", "") # ""
     THEN "camera_alias" :> call["camera_alias"] ELSE <<>>)
    @@ (IF get(call, "position", "") \in POS_CHOICES
        THEN "position" :> call["position"] ELSE <<>>)
    @@ (IF "auto_hide" \in DOMAIN call
        THEN "auto_hide" :> clamp_auto_hide(call["auto_hide"]) ELSE <<>>)
    @@ (IF "show_title" \in DOMAIN call
        THEN "show_title" :> call["show_title"] ELSE <<>>)

\* handle_camera of async_setup: call.data["camera_alias"] and nothing else.
handle_camera_simple(call) == "camera_alias" :> call["camera_alias"]

\* The handler registered under camera_toggle: async_setup's, until an
\* async_setup_entry registers its own.
camera_handler ==
    IF notify_svc = "none" THEN "async_setup" ELSE "async_setup_entry"

\* A call of quickbars.camera_toggle: the schema, then the handler.
camera_toggle(call) ==
    /\ cam.calls < MaxCamCalls
    /\ LET called == [cam EXCEPT !.calls = @ + 1, !.call = call,
                                 !.handler = camera_handler, !.data = <<>>]
           data == CAMERA_SCHEMA(call)
       IN cam' =
            IF CAMERA_SCHEMA_invalid(call)
            THEN [called EXCEPT !.result = "Invalid"]
            ELSE IF camera_handler = "async_setup_entry"
            THEN [called EXCEPT !.result = "fired",
                                !.data = handle_camera(data)]
            ELSE IF "camera_alias" \in DOMAIN data
            THEN [called EXCEPT !.result = "fired",
                                !.data = handle_camera_simple(data)]
            ELSE [called EXCEPT !.result = "KeyError"]
    /\ UNCHANGED <<configured, entries, calls, listeners, bus, recv, raised,
                   setup, hass_data, devices, presence, browsers, hc,
                   lookups, rechecks, notify_svc, action_listeners, svc,
                   budget, cycle, flow, opt>>

CameraNext ==
    \/ LifeNext
    \/ \E call \in CameraCalls : camera_toggle(call)

CameraSpec == PresenceInit /\ [][CameraNext]_vars

\* C28 as claimed: a call of camera_toggle with an auto_hide of 0 or more,
\* handled by the handler of async_setup_entry, is never rejected for its
\* auto_hide, and the event it publishes carries 0 for 0, 5 for 1..4, the
\* input for 5..300 and 300 for an input above 300.
C28_AutoHideClamped ==
    (/\ cam.calls > 0
     /\ cam.handler = "async_setup_entry"
     /\ "auto_hide" \in DOMAIN cam.call
     /\ cam.call["auto_hide"] >= 0
     /\ get(cam.call, "position", "top_left") \in POS_CHOICES)
    => /\ cam.result = "fired"
       /\ "auto_hide" \in DOMAIN cam.data
       /\ LET n == cam.call["auto_hide"]
          IN cam.data["auto_hide"] =
                IF n = 0 THEN 0
                ELSE IF n < 5 THEN 5
                ELSE IF n <= 300 THEN n
                ELSE 300

\* ------------------------------------------- the entry of a service call

\* The configured entries a device reference resolves to: those whose
\* identity, or whose entry id, is the identifier of the registered device.
ResolvedBy(device_id) ==
    {ent \in configured :
        \E d \in devices :
            /\ d.id = device_id
            /\ (entries[ent].id = d.ident \/ <<ent>> = d.ident)}

\* C29 as claimed: a call of quickbars.notify with no device reference while
\* more than one entry is configured raises, and a call with a device
\* reference that resolves to no configured entry selects no entry.
C29_AmbiguousResolutionRaises ==
    [][(budget'.svcs = budget.svcs + 1)
       => /\ (svc'.device_id = "none" /\ Cardinality(configured) > 1)
             => (svc'.error = "ValueError" /\ svc'.entry2 = "none")
          /\ (svc'.device_id # "none" /\ ResolvedBy(svc'.device_id) = {})
             => svc'.entry2 = "none"
          /\ (svc'.device_id # "none" /\ svc'.entry2 # "none")
             => svc'.entry2 \in ResolvedBy(svc'.device_id)]_vars

\* ------------------------------------ a response during the publish

\* The listeners registered when hass.bus.async_fire(EVENT_REQ, ...) runs:
\* hass.bus.async_listen(EVENT_RES, _cb) is the statement before it.
listeners_at_publish_late(c) == listeners
listeners_at_publish(c) == async_listen(c)

\* One of the six awaiting operations on frame c, up to its async_fire, with
\* the remote firing the response `data` on EVENT_RES while the request is
\* being published: the bus dispatches it to the listeners of that moment.
StartSync(c, op, e, data) ==
    /\ calls[c].pc = "idle"
    /\ CIDs \ UsedCids # {}
    /\ ~entry_id_raises(e)
    /\ calls' = [calls EXCEPT ![c] =
          [IdleCall EXCEPT !.pc = "publishing", !.op = op, !.entry = e,
                           !.cid = token_urlsafe, !.exp_id = _entry_id(e),
                           !.sync = [data |-> data,
                                     heard |-> c \in listeners_at_publish(c),
                                     resolved |-> FALSE]]]
    /\ listeners' = async_listen(c)
    /\ bus' = bus (+) SetToBag({OpRequest(op, _entry_id(e), token_urlsafe)})
    /\ recv' = [recv EXCEPT ![c] = NoData]
    /\ UNCHANGED <<configured, entries, lifeVars>>

\* The bus dispatches that response to the listeners it had during the
\* publish: to those of the other calls, and to the one of call c if it was
\* registered. Then the coroutine of c reaches its await.
DispatchSync(c) ==
    /\ calls[c].pc = "publishing"
    /\ LET data == calls[c].sync.data
           hears(k) == IF k = c THEN calls[c].sync.heard ELSE k \in listeners
           fut(k) == IF hears(k) THEN _cb(k, data) ELSE calls[k].fut
       IN /\ calls' = [k \in Frames |->
                [calls[k] EXCEPT !.fut = fut(k),
                   !.sync = IF k = c
                            THEN [data |-> NoData, heard |-> hears(c),
                                  resolved |-> fut(c).state = "done"]
                            ELSE calls[k].sync,
                   !.pc = IF calls[k].pc \in {"waiting", "publishing"}
                             /\ fut(k).state = "done"
                          THEN "resolved"
                          ELSE IF k = c THEN "waiting" ELSE calls[k].pc]]
          /\ recv' = [k \in Frames |->
                IF hears(k) /\ calls[k].fut.state = "pending"
                   /\ fut(k).state = "done"
                THEN data ELSE recv[k]]
    /\ UNCHANGED <<configured, entries, listeners, bus, lifeVars>>

\* No call is between its async_fire and its await: nothing else runs there.
Publishing == {c \in Frames : calls[c].pc = "publishing"}

SyncNext ==
    \/ Publishing = {}
       /\ \E c \in Calls, op \in Ops, e \in configured, data \in ResData :
             StartSync(c, op, e, data)
    \/ \E c \in Calls : DispatchSync(c)
    \/ Publishing = {} /\ \E data \in ResData : Deliver(data)
    \/ Publishing = {} /\ \E c \in Calls : Resume(c)
    \/ Publishing = {} /\ \E c \in Calls : Timeout(c)
    \/ Publishing = {} /\ \E c \in Calls : TimeoutRace(c)
    \/ Publishing = {} /\ \E c \in Calls : Cancel(c)

SyncSpec == Init /\ [][SyncNext]_vars

\* The response carries the cid and the identity of the request of call c.
Answers(c, data) == data.cid = calls[c].cid /\ data.id = calls[c].exp_id

\* C30: in each of the six awaiting operations the listener of the call is
\* registered when its request is published; a response to that request
\* fired during the publish reaches the callback and sets the future, and
\* the call is resumed with that response, not left to a later one or to
\* the timeout.
C30_ListenerBeforePublish ==
    /\ [](\A c \in Publishing : c \in listeners /\ calls[c].sync.heard)
    /\ [][\A c \in Publishing :
            Answers(c, calls[c].sync.data)
            => /\ calls'[c].pc = "resolved"
               /\ calls'[c].fut.state = "done"
               /\ recv'[c] = calls[c].sync.data]_vars

\* A get_snapshot that returned the payload of the response fired during
\* its publish.
C30_Witness ==
    \E c \in Calls :
        /\ calls[c].op = "get_snapshot"
        /\ calls[c].pc = "done"
        /\ calls[c].out.kind = "result"
        /\ calls[c].out.ret \notin {"{}", "None"}
        /\ calls[c].sync.heard
        /\ calls[c].sync.resolved

\* ------------------------------------------------ bridge claims, continued

\* C31: the future of a call is set once. While a call is resolved, the
\* callback leaves its future as it is for every response carrying its cid
\* and identity; no step changes the call or the response it received; and
\* the call ends with the result of that first response, or with the
\* timeout or the cancellation that overtook it.
C31_FulfilledAtMostOnce ==
    /\ [](\A c \in Frames :
            calls[c].pc = "resolved"
            => \A data \in ResData :
                  (data.cid = calls[c].cid /\ data.id = calls[c].exp_id)
                  => _cb(c, data) = calls[c].fut)
    /\ [][\A c \in Frames :
            calls[c].pc = "resolved"
            => \/ calls'[c] = calls[c] /\ recv'[c] = recv[c]
               \/ /\ calls'[c].pc = "done"
                  /\ calls'[c].out \in
                        {OpResult(calls[c].op, calls[c].fut),
                         Raised("TimeoutError", NoData),
                         Raised("CancelledError", NoData)}]_vars

\* A put_snapshot resolved by a response with ok true, its listener still
\* registered, and a ping that returned False.
C31_Witness ==
    \E a, b \in Calls :
        /\ calls[a].op = "put_snapshot" /\ calls[a].pc = "resolved"
        /\ recv[a].ok = "true" /\ a \in listeners
        /\ calls[b].op = "ping" /\ calls[b].out = Returned("False")

\* The calls that ended with TimeoutError.
TimedOut == {t \in Frames : calls[t].pc = "done"
                            /\ calls[t].out.kind = "TimeoutError"}

\* C32: a response to a request that has timed out is dropped. The listener
\* of that request is gone, the callback of every listener still registered
\* leaves its future as it is for a response carrying the cid of the timed
\* out request, whatever its identity, and no step but the start or the end
\* of a call changes the set of listeners.
C32_LateResponseDropped ==
    /\ [](\A t \in TimedOut :
            /\ t \notin listeners
            /\ \A data \in ResData :
                  data.cid = calls[t].cid
                  => \A c \in listeners : _cb(c, data) = calls[c].fut)
    /\ [][listeners' # listeners
          => \E c \in Frames : Begins(c) \/ Exits(c)]_vars

\* A get_snapshot that timed out, and a later get_snapshot for the same
\* identity that is waiting.
C32_Witness ==
    \E t \in TimedOut, c \in Calls :
        /\ calls[t].op = "get_snapshot"
        /\ calls[c].op = "get_snapshot" /\ calls[c].pc = "waiting"
        /\ calls[c].exp_id = calls[t].exp_id
        /\ calls[c].cid > calls[t].cid
        /\ listeners = {c}

\* The requests a step publishes.
Published ==
    {ev \in BagToSet(bus') :
        ev \notin BagToSet(bus) \/ CopiesIn(ev, bus') > CopiesIn(ev, bus)}

\* C33 as claimed: no two registered listeners wait for the same cid, and no
\* step publishes a request carrying the cid of a call that is in flight,
\* ws_notify_fire with a cid its caller supplied included.
C33_CidNeverReused ==
    /\ [](\A a, b \in listeners : a # b => calls[a].cid # calls[b].cid)
    /\ [][\A ev \in Published :
            \A c \in InFlight : calls[c].cid # ev.cid]_vars

\* ------------------------------------------- lifecycle claims, continued

\* C34 as claimed: while the presence tracker of an entry is stopped, no
\* step changes the host or the port stored for the entry and none schedules
\* a re-check of its coordinator, the end of a _handle_change that was
\* resolving when stop() was called included.
C34_StoppedTrackerIsSilent ==
    [][\A e \in configured :
         (presence[e] = "stopped" /\ presence'[e] = "stopped")
         => /\ entries'[e].host = entries[e].host
            /\ entries'[e].port = entries[e].port
            /\ rechecks'[e] = rechecks[e]]_vars

\* C35 as claimed: when _handle_change has persisted a new host or port, the
\* registry record of its entry exists as it reads the coordinator from it,
\* and the task raises nothing, whatever setups and unloads ran meanwhile.
C35_RecordExistsWhenRead ==
    [][(hc.state = "resolving" /\ hc'.state = "done" /\ entries' # entries)
       => /\ hass_data[hc.entry].present
          /\ raised' = raised]_vars

\* C36 as claimed: a setup that ends without success leaves nothing of the
\* entry active: no discovery browser is running for it and the registry
\* holds no record of it.
C36_FailedSetupLeavesNothing ==
    [][\A e \in configured :
         (setup[e] = "refreshing" /\ setup'[e] = "not_loaded")
         => /\ browsers'[e] = 0
            /\ presence'[e] # "watching"
            /\ ~hass_data'[e].present]_vars

\* ------------------------------------------------ the quickbars.action event

MaxActions == 1

\* The event _on_action fires for a button of entry e.
notification_action(device_id, e) ==
    Event("quickbars.notification_action", NoId, "none", NoCid, "absent",
          device_id, e)

\* A quickbars.action event whose data carries `id` (NoId: none) reaches the
\* _on_action of every entry that listens: each returns for the id of
\* another entry and else fires quickbars.notification_action with the
\* device of its registry record.
_on_action(id) ==
    /\ budget.actions < MaxActions
    /\ budget' = [budget EXCEPT !.actions = @ + 1]
    /\ LET exp_id(e) == IF entries[e].id # NoId THEN entries[e].id ELSE <<e>>
           heard == {e \in action_listeners : id = NoId \/ id = exp_id(e)}
       IN /\ bus' = bus (+) SetToBag(
                     {notification_action(hass_data[e].device_id, e) :
                         e \in {h \in heard : hass_data[h].present}})
          /\ raised' = raised \cup
                {Error("_on_action", e, "KeyError") :
                    e \in {h \in heard : ~hass_data[h].present}}
    /\ UNCHANGED <<configured, entries, calls, listeners, recv, setup,
                   hass_data, devices, presence, browsers, hc, lookups,
                   rechecks, notify_svc, action_listeners, svc, cycle, flow,
                   opt, cam>>

ActionNext ==
    \/ LifeNext
    \/ \E id \in Ids \cup {NoId} : _on_action(id)

ActionSpec == LifeInit /\ [][ActionNext]_vars

\* C37 as claimed: the step in which async_unload_entry ends for a loaded
\* entry leaves no listener of quickbars.action for it, no discovery browser
\* running for it and no record of it in the registry; and a
\* notification_action event is only ever fired for an entry that is loaded.
C37_UnloadReleasesEverything ==
    /\ [][\A e \in configured :
            (setup[e] = "loaded" /\ setup'[e] = "not_loaded")
            => /\ e \notin action_listeners'
               /\ presence'[e] = "stopped"
               /\ browsers'[e] = 0
               /\ ~hass_data'[e].present]_vars
    /\ [][\A ev \in Published :
            ev.type = "quickbars.notification_action"
            => setup[ev.entry_id] = "loaded"]_vars

\* ------------------------------------------------ pairing claims, continued

\* The configured entries whose identity is `id`.
EntriesOf(id) == {e \in configured : entries[e].id = id}

\* C38: no two configured entries hold the same identity. A pair step whose
\* confirm_pair returns the identity of a configured entry, and a discovery
\* whose TXT id is that of a configured entry, abort the flow, create no
\* entry and leave that entry with its identity and a host and port.
C38_OneEntryPerIdentity ==
    /\ [](\A a, b \in configured : a # b => entries[a].id # entries[b].id)
    /\ [][(/\ flow.step = "pair" /\ flow'.submits = flow.submits + 1
           /\ flow'.net = "ok" /\ EntriesOf(flow'.qb_id) # {})
          => /\ flow'.result = "abort"
             /\ flow'.errors = "already_configured"
             /\ configured' = configured
             /\ \A e \in EntriesOf(flow'.qb_id) :
                   /\ entries'[e].id = flow'.qb_id
                   /\ entries'[e].host = flow.host
                   /\ entries'[e].port \in Ports]_vars
    /\ [][(/\ flow'.flows = flow.flows + 1 /\ flow'.txt_id # NoId
           /\ EntriesOf(flow'.txt_id) # {})
          => /\ flow'.result = "abort"
             /\ configured' = configured
             /\ \A e \in EntriesOf(flow'.txt_id) :
                   entries'[e].id = flow'.txt_id]_vars

\* Two entries configured, and a pair step for the identity of the first
\* one aborted, the entry now at the host of that flow.
C38_Witness ==
    /\ configured = Entries
    /\ flow.result = "abort" /\ flow.errors = "already_configured"
    /\ flow.step = "pair" /\ flow.qb_id = IdA
    /\ entries["e1"].host = "h2"

\* ------------------------------------------ notify service, continued

\* C39 as claimed: every notification_sent event names one entry, its
\* device_id being the device of the entry its entry_id names; and a call of
\* the notify service that resolves to a loaded entry raises nothing,
\* whichever entries were set up or unloaded before.
C39_NotificationNamesOneEntry ==
    /\ [](\A ev \in BagToSet(bus) :
            ev.type = "quickbars.notification_sent"
            => ev.device_id = DeviceId(ev.entry_id))
    /\ [][(/\ budget'.svcs = budget.svcs + 1
           /\ svc'.entry2 # "none" /\ svc'.error = "none"
           /\ setup[svc'.entry2] = "loaded")
          => raised' = raised]_vars

\* ------------------------------------------ options flow claims, continued

\* C40 as claimed: after a submission of the editor that was pushed, the
\* savedEntityIds stored in the quick bar and pushed are the ids the user
\* submitted that are saved, each once, in the order of their first
\* occurrence; an empty selection gives an empty list.
C40_SubmittedSelectionStored ==
    [][(EditorSubmits /\ opt'.result = "create_entry")
       => LET stored == opt'.snapshot.quick_bars[opt.qb_index].savedEntityIds
              submitted == opt'.user_input.saved_entities
              pushed == opt'.published[Len(opt'.published)]
          IN /\ IsFirstOccurrences(stored, submitted, SavedIds(opt.snapshot))
             /\ submitted = <<>> => stored = <<>>
             /\ pushed.action = "put_snapshot"
             /\ pushed.payload.quick_bars[opt.qb_index].savedEntityIds
                   = stored]_vars

====
